---- MODULE Spec2Model ----
(***************************************************************************)
(* Model of oci-unpack: the blob download pool and ordered extractor of    *)
(* src/unpacker/images.rs, the digest verifier of src/digest.rs, the tar   *)
(* entry extractor of src/unpacker/layers.rs over the directory helpers of *)
(* src/fs.rs, and the registry client of src/http/mod.rs.                  *)
(*                                                                         *)
(* Seven specifications share the module:                                  *)
(*   Spec        the download workers and the extractor loop (images.rs)   *)
(*   SpecQueue   the work queue and thread pool of a long manifest         *)
(*   SpecLayer   unpack_layer's choice of a decoder by media type          *)
(*   SpecFs      the extraction of tar entries into a file tree (layers.rs)*)
(*   SpecMeta    the map of deferred directory metadata (mod.rs)           *)
(*   SpecHttp    the registry client and its bearer-token slot (http)      *)
(*   SpecUnpack  Unpacker::unpack: the target check, the resolution of the *)
(*               manifest, the sandbox and the hand-over to images::get    *)
(***************************************************************************)
EXTENDS Integers, Sequences, FiniteSets, TLC

\* ------------------------------------------------------------------------
\* Bounds and program constants
\* ------------------------------------------------------------------------

\* Number of layers of the manifest (task 0 is the config blob).
NumLayers == 2

\* Number of tar entries of every layer in the download/extract pipeline.
EntriesPerLayer == 2

\* Longest body, in chunks, a registry streams for one blob.
MaxChunks == 1

\* Number of distinct values of a chunk of a blob body.
NumChunkVals == 1

\* Bytes of one chunk of a blob body.
ChunkBytes == 2

\* Number of distinct values of the modelled hash function.
HashMod == 2

\* Longest path, in names, of an entry of an archive.
MaxDepth == 2

\* Number of entries that record or remove directory metadata.
MaxRecords == 3

\* Number of entries that the enumerated layers hold together.
MaxEntries == 4

\* Number of distinct contents of a regular file of an archive.
NumData == 1

\* Number of threads that call the registry client.
NumSenders == 2

\* Number of requests that each thread sends.
MaxSends == 2

\* Number of manifest requests that one resolution sends at most.
MaxManifestRequests == 3

\* Number of entries that an index holds at most.
MaxIndexEntries == 2

\* Number of blob requests of one unpack.
MaxBlobRequests == 2

\* Number of layers of the longest manifest of the work queue.
ManyLayers == 9

\* Number of symlinks the kernel follows in one path resolution.
SymlinkFuel == 6

\* mod.rs: usize::MAX, from which the length of a path is subtracted.
usize_MAX == 2147483647

\* images.rs: maximum number of threads to download blobs in parallel.
QUEUE_LIMIT == 8

\* layers.rs: the name of an opaque whiteout, after WHITEOUT_PREFIX.
WHITEOUT_OPAQUE == ".wh..opq"

ChunkVals == 1 .. NumChunkVals

Min(a, b) == IF a < b THEN a ELSE b

\* download_tasks: the config blob, then every layer.
Tasks == 0 .. NumLayers

\* for _ in 0..min(QUEUE_LIMIT, download_tasks.len())
NumWorkers == Min(QUEUE_LIMIT, NumLayers + 1)

Errors == {"Io", "InvalidData", "Interrupted", "Http"}

VARIABLES
    \* ---- images.rs: get() ----
    epc,        \* position of the orchestrator/extractor thread
    idx,        \* index in download_tasks of the task being consumed
    is_alive,   \* the AtomicBool polled by the workers
    ret,        \* value returned by get(): "None" until it is decided
    pending,    \* the VecDeque of tasks not yet taken by a worker
    idle,       \* worker threads at the head of their loop, holding no task
    dpc,        \* per task: "none" before the task is created, "pending" in
                \* the queue, then the position of the worker that holds it
    slot,       \* Download::result of every task
    \* ---- digest.rs / run_download ----
    expected,   \* hash value named by the descriptor's digest
    hasher,     \* running hash of the bytes read from the registry
    nread,      \* chunks read so far from the blob's body
    file,       \* bytes that reached the blob's file
    buf,        \* bytes held in the BufWriter of the blob's file
    opened,     \* the blob's output file has been created
    \* ---- history ----
    requests,   \* blob requests sent for a task
    taken,      \* times a task was popped from pending
    completed,  \* times Download::complete ran for a task
    consumed,   \* times Download::get returned for a task
    applied,    \* tar entries of a layer applied by the extractor
    events,     \* what the EventHandler has been told so far
    download_result,   \* what run_download returned for a task
    tarball_position,  \* the Cell that PositionTracker counts into
    layer_events,      \* layer_start and layer_progress of the layer in work
    \* ---- layers.rs / fs.rs: the extraction of the archives ----
    fs,                 \* the host's file tree: path -> node
    dirs_cache,         \* Context::dirs_cache: parent path -> descriptor
    cached_link_dirfd,  \* Context::cached_link_dirfd
    dirs_metadata,      \* paths of the keys of the deferred metadata
    fpc,                \* "run", "failed" or "done"
    ferr,               \* error that ended the extraction
    last,               \* entry that went through Context::unpack last
    nentries,           \* entries that went through Context::unpack
    stamped,            \* what the deferred metadata updates did, in order
    entry_skipped,      \* calls of layer_entry_skipped by the last Context::unpack
    \* ---- http/mod.rs: the registry client ----
    auth_token,      \* Client::auth_token
    readers,         \* threads that hold a read guard of auth_token
    writer,          \* thread that holds the write guard, 0 for none
    hpc,             \* position of every thread in send
    hret,            \* what send returned to the thread
    unauth,          \* requests without Authorization of the thread's send
    token_requests,  \* requests to the realm of the thread's send
    auth_calls,      \* requests with Authorization of the thread's send
    sent_auth,       \* Authorization header of the thread's last request
    cached_by,       \* value the thread's send stored in auth_token
    issued,          \* tokens the token service has issued
    sends,           \* calls of send by the thread
    unauth_response, \* per thread: answer to its request without token, if any
    \* ---- unpacker/mod.rs, manifests.rs: Unpacker::unpack ----
    upc,              \* position of unpack
    uret,             \* value returned by unpack, "None" until it returns
    target_dir,       \* what the target path is on disk
    target_dir0,      \* what the target path was when unpack was called
    require_sandbox,  \* Unpacker::require_sandbox
    sandbox,          \* "none", "enforced" or "failed"
    sandbox_events,   \* calls of EventHandler::sandbox_status
    wanted,           \* architecture and os asked for
    tag,              \* the locator of the next manifest request
    manifest_log,     \* paths of the manifest requests sent, in order
    response,         \* the last response to a manifest request
    manifest,         \* "none" or "resolved"
    blob_requests,    \* blob requests sent
    created,          \* files created in the target
    umask,            \* the file mode creation mask of the process
    umask0,           \* the mask when unpack was called
    umask_guard,      \* images::get's _umask_guard: None or the saved mask
    \* ---- images.rs: the work queue of get() for a long manifest ----
    download_tasks,   \* number of tasks: the config blob and the layers
    queue,            \* the VecDeque pending, as task indexes
    threads,          \* spawned workers at the head of their loop
    downloading,      \* tasks that a worker holds in run_download
    start_order,      \* tasks in the order in which workers took them
    \* ---- images.rs, layers.rs: the blobs of a manifest in unpack_layer ----
    blobs,            \* media types of the manifest's blobs, config first
    zstd,             \* the crate is built with the feature zstd
    lidx,             \* index in blobs of the task that get consumes next
    lpc,              \* "loop" or "returned"
    lret,             \* what the loop of get returned, "None" before
    handled,          \* what unpack_layer did with every task so far
    \* ---- mod.rs, layers.rs, images.rs: the map DirectoryMetadata ----
    dirs_mtimes,      \* the BTreeMap as its (key, value) pairs in key order
    recorded,         \* per path, the metadata its directory entries recorded
    updates,          \* the (key, value) pairs the loop of get has taken
    mpc,              \* "layers", "metadata" or "done"
    nrecorded         \* entries that changed or could have changed the map

poolVars == <<epc, idx, is_alive, ret, pending, idle, dpc, slot, expected,
              hasher, nread, file, buf, opened, requests, taken, completed,
              consumed, applied, events, download_result, tarball_position,
              layer_events>>

fsVars == <<fs, dirs_cache, cached_link_dirfd, dirs_metadata, fpc, ferr, last,
            nentries, stamped, entry_skipped>>

httpVars == <<auth_token, readers, writer, hpc, hret, unauth, token_requests,
              auth_calls, sent_auth, cached_by, issued, sends, unauth_response>>

unpackVars == <<upc, uret, target_dir, target_dir0, require_sandbox, sandbox,
                sandbox_events, wanted, tag, manifest_log, response, manifest,
                blob_requests, created, umask, umask0, umask_guard>>

queueVars == <<download_tasks, queue, threads, downloading, start_order>>

layerVars == <<blobs, zstd, lidx, lpc, lret, handled>>

metaVars == <<dirs_mtimes, recorded, updates, mpc, nrecorded>>

vars == <<poolVars, fsVars, httpVars, unpackVars, queueVars, layerVars, metaVars>>

\* What a specification leaves alone.
nonPoolVars == <<fsVars, httpVars, unpackVars, queueVars, layerVars,
                 metaVars>>

nonFsVars == <<poolVars, httpVars, unpackVars, queueVars, layerVars,
               metaVars>>

nonHttpVars == <<poolVars, fsVars, unpackVars, queueVars, layerVars,
                 metaVars>>

nonUnpackVars == <<poolVars, fsVars, httpVars, queueVars, layerVars,
                   metaVars>>

nonQueueVars == <<poolVars, fsVars, httpVars, unpackVars, layerVars,
                  metaVars>>

nonLayerVars == <<poolVars, fsVars, httpVars, unpackVars, queueVars, metaVars>>

nonMetaVars == <<poolVars, fsVars, httpVars, unpackVars, queueVars, layerVars>>

\* The work queue of a long manifest is not part of this specification.
QueueIdle ==
    /\ download_tasks = 0
    /\ queue = <<>>
    /\ threads = 0
    /\ downloading = {}
    /\ start_order = <<>>

\* The blobs of a manifest are not part of this specification.
LayerIdle ==
    /\ blobs = <<>>
    /\ zstd = FALSE
    /\ lidx = 0
    /\ lpc = "idle"
    /\ lret = "None"
    /\ handled = <<>>

\* The map of directory metadata is not part of this specification.
MetaIdle ==
    /\ dirs_mtimes = <<>>
    /\ recorded = <<>>
    /\ updates = <<>>
    /\ mpc = "idle"
    /\ nrecorded = 0

\* Unpacker::unpack is not part of this specification.
UnpackIdle ==
    /\ upc = "idle"
    /\ uret = "None"
    /\ target_dir = "empty"
    /\ target_dir0 = "empty"
    /\ require_sandbox = TRUE
    /\ sandbox = "none"
    /\ sandbox_events = 0
    /\ wanted = <<>>
    /\ tag = <<>>
    /\ manifest_log = <<>>
    /\ response = <<>>
    /\ manifest = "none"
    /\ blob_requests = 0
    /\ created = {}
    /\ umask = 0
    /\ umask0 = 0
    /\ umask_guard = <<>>

\* The registry client is not part of this specification.
HttpIdle ==
    /\ auth_token = <<>>
    /\ readers = {}
    /\ writer = 0
    /\ hpc = <<>>
    /\ hret = <<>>
    /\ unauth = <<>>
    /\ token_requests = <<>>
    /\ auth_calls = <<>>
    /\ sent_auth = <<>>
    /\ cached_by = <<>>
    /\ issued = 0
    /\ sends = <<>>
    /\ unauth_response = <<>>

\* The extraction of archives is not part of this specification.
FsIdle ==
    /\ fs = <<>>
    /\ dirs_cache = <<>>
    /\ cached_link_dirfd = <<>>
    /\ dirs_metadata = {}
    /\ fpc = "idle"
    /\ ferr = "ok"
    /\ last = <<>>
    /\ nentries = 0
    /\ stamped = <<>>
    /\ entry_skipped = 0

\* ------------------------------------------------------------------------
\* event_handler.rs: the calls of the EventHandler, in the order they are
\* made. Kept of them: how often download_start and finished were called,
\* whether a download_progress_bytes came before download_start, and whether
\* any call came after finished.
\* ------------------------------------------------------------------------

EventNames == {"registry_request", "download_start", "download_progress_bytes",
               "layer_start", "layer_progress", "finished"}

NoEvents == [download_start |-> 0, finished |-> 0, early |-> FALSE, after |-> FALSE]

\* Kept of the events of every layer: how often layer_start was called and
\* the length it gave, the positions of the last two calls of
\* layer_progress, and whether a layer_progress came before layer_start.
NoLayerEvents ==
    [t \in 0 .. NumLayers |->
        [start |-> 0, archive_len |-> 0, prev |-> 0, last |-> 0,
         progress |-> FALSE, early |-> FALSE]]

\* event_handler.<name>(..)
Emit(ev, name) ==
    [download_start |-> ev.download_start + (IF name = "download_start" THEN 1 ELSE 0),
     finished |-> ev.finished + (IF name = "finished" THEN 1 ELSE 0),
     early |-> ev.early \/ (name = "download_progress_bytes" /\ ev.download_start = 0),
     after |-> ev.after \/ ev.finished > 0]

\* ------------------------------------------------------------------------
\* digest.rs
\* ------------------------------------------------------------------------

\* hasher.update(&buf[..n]) for one chunk.
HashUpdate(h, c) == (h + c) % HashMod

RECURSIVE HashFrom(_, _)
HashFrom(h, s) == IF s = <<>> THEN h ELSE HashFrom(HashUpdate(h, Head(s)), Tail(s))

\* Hash of a whole byte sequence, starting from a fresh hasher.
Hash(s) == HashFrom(0, s)

\* DigestReader::check_hash: Ok(0) iff the computed hash is the expected one.
check_hash(h, exp) == h = exp

\* ------------------------------------------------------------------------
\* images.rs: Download
\* ------------------------------------------------------------------------

\* A complete that wakes nobody.
notify_nobody(pc, waited, t) == pc

\* self.notifier.notify_one(), called with the lock of the slot held: the
\* extractor, if it waits in Download::get of task t, goes back to its test
\* of the slot.
notify_one(pc, waited, t) == IF pc = "wait" /\ waited = t THEN "get" ELSE pc

\* Download::complete: store the result in the slot and notify. The worker
\* that ran run_download goes back to the head of its loop.
complete(t, r) ==
    /\ slot' = [slot EXCEPT ![t] = r]
    /\ epc' = notify_one(epc, idx, t)
    /\ download_result' = [download_result EXCEPT ![t] = r]
    /\ completed' = [completed EXCEPT ![t] = @ + 1]
    /\ dpc' = [dpc EXCEPT ![t] = "done"]
    /\ idle' = idle + 1

\* ------------------------------------------------------------------------
\* images.rs: the worker threads. The threads run the same closure and are
\* told apart only by the task they hold.
\* ------------------------------------------------------------------------

\* A pop that returns the front of the queue and leaves it in place.
pop_front_keep(q) == q

\* q.pop_front(): the queue after the pop.
pop_front(q) == Tail(q)

\* while let Ok(Some(task)) = pending.lock().map(|mut q| q.pop_front()):
\* a worker at the head of its loop takes the next task.
PopTask ==
    /\ idle > 0
    /\ pending # <<>>
    /\ dpc' = [dpc EXCEPT ![Head(pending)] = "open"]
    /\ pending' = pop_front(pending)
    /\ taken' = [taken EXCEPT ![Head(pending)] = @ + 1]
    /\ idle' = idle - 1
    /\ UNCHANGED nonPoolVars
    /\ UNCHANGED <<events, tarball_position, layer_events, download_result>>
    /\ UNCHANGED <<epc, idx, is_alive, ret, slot, expected, hasher, nread,
                   file, buf, opened, requests, completed, consumed, applied>>

\* The pop returns None: the worker's loop and its thread end.
WorkerExit ==
    /\ idle > 0
    /\ pending = <<>>
    /\ idle' = idle - 1
    /\ UNCHANGED nonPoolVars
    /\ UNCHANGED <<events, tarball_position, layer_events, download_result>>
    /\ UNCHANGED <<epc, idx, is_alive, ret, pending, dpc, slot, expected,
                   hasher, nread, file, buf, opened, requests, taken,
                   completed, consumed, applied>>

\* run_download up to its loop: download_blob sends the request, then the
\* output file is created (config.json or an unnamed temporary file).
OpenDownload(t) ==
    /\ dpc[t] = "open"
    /\ requests' = [requests EXCEPT ![t] = @ + 1]
    /\ \/ \* the request fails
          /\ complete(t, "Http")
          /\ UNCHANGED opened
       \/ \* the request succeeds, creating the file fails
          /\ complete(t, "Io")
          /\ UNCHANGED opened
       \/ \* both succeed
          /\ opened' = [opened EXCEPT ![t] = TRUE]
          /\ dpc' = [dpc EXCEPT ![t] = "check"]
          /\ UNCHANGED <<slot, completed, idle, epc, download_result>>
    /\ events' = Emit(events, "registry_request")
    /\ UNCHANGED <<tarball_position, layer_events>>
    /\ UNCHANGED nonPoolVars
    /\ UNCHANGED <<idx, is_alive, ret, pending, expected, hasher,
                   nread, file, buf, taken, consumed, applied>>

\* A copy loop that never looks at the flag.
IsInterrupted_never(alive) == FALSE

\* !is_alive.load(Ordering::Relaxed): the test at the top of the copy loop.
IsInterrupted(alive) == ~alive

\* if !is_alive.load(..) { return Err(UnpackError::Interrupted) }
CheckAlive(t) ==
    /\ dpc[t] = "check"
    /\ IF IsInterrupted(is_alive)
       THEN complete(t, "Interrupted")
       ELSE /\ dpc' = [dpc EXCEPT ![t] = "read"]
            /\ UNCHANGED <<slot, completed, idle, epc, download_result>>
    /\ UNCHANGED nonPoolVars
    /\ UNCHANGED <<events, tarball_position, layer_events>>
    /\ UNCHANGED <<idx, is_alive, ret, pending, expected, hasher,
                   nread, file, buf, opened, requests, taken, consumed,
                   applied>>

\* A reader that does not compare the hash at EOF.
EofResult_unchecked(h, exp) == "Ok"

\* Result of DigestReader::read when the wrapped reader reports EOF.
EofResult(h, exp) == IF check_hash(h, exp) THEN "Ok" ELSE "InvalidData"

\* input.read(..) returned n > 0: the chunk is hashed by DigestReader::read
\* and written with output.write_all. The BufWriter either keeps the chunk
\* in its buffer or writes its buffer and the chunk to the file; a failed
\* write is returned by write_all.
ReadChunk(t) ==
    /\ dpc[t] = "read"
    /\ nread[t] < MaxChunks
    /\ \E c \in ChunkVals :
        /\ hasher' = [hasher EXCEPT ![t] = HashUpdate(@, c)]
        /\ nread' = [nread EXCEPT ![t] = @ + 1]
        /\ \/ /\ buf' = [buf EXCEPT ![t] = Append(@, c)]
              /\ dpc' = [dpc EXCEPT ![t] = "check"]
              /\ UNCHANGED <<file, slot, completed, idle, epc, download_result>>
           \/ /\ file' = [file EXCEPT ![t] = @ \o Append(buf[t], c)]
              /\ buf' = [buf EXCEPT ![t] = <<>>]
              /\ dpc' = [dpc EXCEPT ![t] = "check"]
              /\ UNCHANGED <<slot, completed, idle, epc, download_result>>
           \/ /\ complete(t, "Io")
              /\ UNCHANGED <<file, buf>>
    /\ events' = Emit(events, "download_progress_bytes")
    /\ UNCHANGED <<tarball_position, layer_events>>
    /\ UNCHANGED nonPoolVars
    /\ UNCHANGED <<idx, is_alive, ret, pending, expected, opened,
                   requests, taken, consumed, applied>>

\* input.read(..) failed in the transport.
ReadError(t) ==
    /\ dpc[t] = "read"
    /\ complete(t, "Io")
    /\ UNCHANGED nonPoolVars
    /\ UNCHANGED <<events, tarball_position, layer_events>>
    /\ UNCHANGED <<idx, is_alive, ret, pending, expected, hasher,
                   nread, file, buf, opened, requests, taken, consumed,
                   applied>>

\* drop(output): the BufWriter writes its buffer to the file; the error of
\* a failed write is discarded by the drop.
DropOutput(t) ==
    /\ buf' = [buf EXCEPT ![t] = <<>>]
    /\ \/ file' = [file EXCEPT ![t] = @ \o buf[t]]
       \/ buf[t] # <<>> /\ UNCHANGED file

\* The wrapped reader reports EOF. DigestReader::read returns check_hash();
\* on Ok(0) run_download drops the BufWriter and returns the file.
ReadEof(t) ==
    /\ dpc[t] = "read"
    /\ complete(t, EofResult(hasher[t], expected[t]))
    /\ IF EofResult(hasher[t], expected[t]) = "Ok"
       THEN DropOutput(t)
       ELSE UNCHANGED <<file, buf>>
    /\ UNCHANGED nonPoolVars
    /\ UNCHANGED <<events, tarball_position, layer_events>>
    /\ UNCHANGED <<idx, is_alive, ret, pending, expected, hasher,
                   nread, opened, requests, taken, consumed, applied>>

Worker ==
    \/ PopTask
    \/ WorkerExit
    \/ \E t \in Tasks : OpenDownload(t)
    \/ \E t \in Tasks : CheckAlive(t)
    \/ \E t \in Tasks : ReadChunk(t)
    \/ \E t \in Tasks : ReadError(t)
    \/ \E t \in Tasks : ReadEof(t)

\* ------------------------------------------------------------------------
\* images.rs: get(), the orchestrator and extractor thread
\* ------------------------------------------------------------------------

\* The closure of thread::scope returns r: the AliveTracker is dropped and
\* the scope waits for the workers.
LeaveScope(r) ==
    /\ ret' = r
    /\ is_alive' = FALSE
    /\ epc' = "joining"

\* Directory::new(target), download_start, the tasks, the queue, the umask
\* guard and the spawn of the workers.
EnterGet ==
    /\ epc = "start"
    /\ \/ /\ epc' = "returned"
          /\ ret' = "Io"
          /\ UNCHANGED <<pending, idle, dpc, events>>
       \/ /\ epc' = "rootfs"
          /\ events' = Emit(events, "download_start")
          /\ pending' = [i \in 1 .. NumLayers + 1 |-> i - 1]
          /\ dpc' = [t \in Tasks |-> "pending"]
          /\ idle' = NumWorkers
          /\ UNCHANGED ret
    /\ UNCHANGED <<tarball_position, layer_events, download_result>>
    /\ UNCHANGED nonPoolVars
    /\ UNCHANGED <<idx, is_alive, slot, expected, hasher, nread, file,
                   buf, opened, requests, taken, completed, consumed, applied>>

\* target.open_directory(ROOTFS_PATH, true)
OpenRootfs ==
    /\ epc = "rootfs"
    /\ \/ LeaveScope("Io")
       \/ /\ epc' = "get"
          /\ UNCHANGED <<ret, is_alive>>
    /\ UNCHANGED nonPoolVars
    /\ UNCHANGED <<events, tarball_position, layer_events, download_result>>
    /\ UNCHANGED <<idx, pending, idle, dpc, slot, expected, hasher, nread,
                   file, buf, opened, requests, taken, completed, consumed,
                   applied>>

\* An extractor that consumes whichever download has completed.
NextTask_completed(i, s) ==
    IF \E t \in Tasks : s[t] # "None"
    THEN CHOOSE t \in Tasks : s[t] # "None"
    ELSE i

\* for task in &download_tasks: the task the extractor consumes next.
NextTask(i, s) == i

\* task.get()?: with the lock of the slot held, lock.take() returns the
\* result, which leaves the slot empty, or finds none and the thread waits
\* on the notifier, which releases the lock.
TaskGet ==
    /\ epc = "get"
    /\ LET t == NextTask(idx, slot)
       IN /\ idx' = t
          /\ IF slot[t] = "None"
             THEN /\ epc' = "wait"
                  /\ UNCHANGED <<slot, consumed, ret, is_alive>>
             ELSE /\ slot' = [slot EXCEPT ![t] = "None"]
                  /\ consumed' = [consumed EXCEPT ![t] = @ + 1]
                  /\ IF slot[t] = "Ok"
                     THEN /\ epc' = "unpack"
                          /\ UNCHANGED <<ret, is_alive>>
                     ELSE LeaveScope(slot[t])
    /\ UNCHANGED nonPoolVars
    /\ UNCHANGED <<events, tarball_position, layer_events, download_result>>
    /\ UNCHANGED <<pending, idle, dpc, expected, hasher, nread, file, buf,
                   opened, requests, taken, completed, applied>>

\* unpack_layer returned Ok: the loop goes to the next task, or ends and
\* drops the AliveTracker.
NextLayer ==
    IF idx = NumLayers
    THEN /\ epc' = "metadata"
         /\ is_alive' = FALSE
         /\ UNCHANGED <<idx, ret>>
    ELSE /\ epc' = "get"
         /\ idx' = idx + 1
         /\ UNCHANGED <<is_alive, ret>>

\* unpack_layer for the config blob, which the manifests of this
\* specification declare with a config media type: nothing is extracted.
\* Their layers are declared as archives.
UnpackConfig ==
    /\ epc = "unpack"
    /\ idx = 0
    /\ NextLayer
    /\ UNCHANGED nonPoolVars
    /\ UNCHANGED <<events, tarball_position, layer_events, download_result>>
    /\ UNCHANGED <<pending, idle, dpc, slot, expected, hasher, nread, file,
                   buf, opened, requests, taken, completed, consumed, applied>>

\* unpack_layer tells layer_start before the first entry of the archive and
\* layer_progress before every entry.
unpack_layer_events(ev, n) ==
    IF n = 0
    THEN Emit(Emit(ev, "layer_start"), "layer_progress")
    ELSE Emit(ev, "layer_progress")

\* tarball.seek(io::SeekFrom::End(0)): the length of the blob's file.
archive_len(f) == ChunkBytes * Len(f)

\* A tracker that keeps the length of the last read.
PositionTracker_read_last(count, n) == n

\* PositionTracker::read: self.count.set(self.count.get() + n)
PositionTracker_read(count, n) == count + n

\* event_handler.layer_start(archive_len), told in unpack_layer of task t
layer_start(le, t, len) ==
    [le EXCEPT ![t].start = @ + 1, ![t].archive_len = len]

\* event_handler.layer_progress(tarball_position.get()), told in
\* unpack_layer of task t
layer_progress(le, t, position) ==
    [le EXCEPT ![t].prev = le[t].last, ![t].last = position,
               ![t].progress = TRUE, ![t].early = @ \/ le[t].start = 0]

\* The calls of unpack_layer of task t up to the n-th turn of its loop,
\* where the tracker is at position.
layer_events_of_entry(le, t, n, len, position) ==
    IF n = 0
    THEN layer_progress(layer_start(le, t, len), t, position)
    ELSE layer_progress(le, t, position)

\* Cell::new(0) when unpack_layer begins, the cell's value after that.
position_at(n, position) == IF n = 0 THEN 0 ELSE position

\* unpack_layer for a layer: archive.entries() reads the header of the next
\* entry, layer_progress is told, and ctx.unpack reads the entry's data and
\* applies it, or fails.
UnpackEntry ==
    /\ epc = "unpack"
    /\ idx > 0
    /\ applied[idx] < EntriesPerLayer
    /\ \/ /\ applied' = [applied EXCEPT ![idx] = @ + 1]
          /\ UNCHANGED <<epc, idx, is_alive, ret>>
       \/ /\ LeaveScope("Io")
          /\ UNCHANGED <<idx, applied>>
    /\ events' = unpack_layer_events(events, applied[idx])
    /\ \E n \in 0 .. archive_len(file[idx]) :
          \E pos \in {PositionTracker_read(
                          position_at(applied[idx], tarball_position), n)} :
             /\ n <= archive_len(file[idx]) - position_at(applied[idx], tarball_position)
             /\ layer_events' = layer_events_of_entry(layer_events, idx, applied[idx],
                                                      archive_len(file[idx]), pos)
             /\ \E m \in 0 .. archive_len(file[idx]) :
                   /\ m <= archive_len(file[idx])
                            - position_at(applied[idx], tarball_position) - n
                   /\ tarball_position' = PositionTracker_read(pos, m)
    /\ UNCHANGED download_result
    /\ UNCHANGED nonPoolVars
    /\ UNCHANGED <<pending, idle, dpc, slot, expected, hasher, nread, file,
                   buf, opened, requests, taken, completed, consumed>>

\* unpack_layer for a layer: the archive has no more entries.
UnpackDone ==
    /\ epc = "unpack"
    /\ idx > 0
    /\ applied[idx] = EntriesPerLayer
    /\ NextLayer
    /\ events' = Emit(events, "layer_progress")
    /\ \E n \in 0 .. archive_len(file[idx]) - tarball_position :
          /\ layer_events' = layer_progress(layer_events, idx,
                                            PositionTracker_read(tarball_position, n))
          /\ tarball_position' = PositionTracker_read(tarball_position, n)
    /\ UNCHANGED download_result
    /\ UNCHANGED nonPoolVars
    /\ UNCHANGED <<pending, idle, dpc, slot, expected, hasher, nread, file,
                   buf, opened, requests, taken, completed, consumed, applied>>

\* A get that tells finished whatever the result.
metadata_events_always(ev, r) == Emit(ev, "finished")

\* event_handler.finished() is reached when no update of the deferred
\* metadata has returned an error.
metadata_events(ev, r) == IF r = "Ok" THEN Emit(ev, "finished") ELSE ev

\* The deferred directory metadata, then event_handler.finished().
ApplyMetadata ==
    /\ epc = "metadata"
    /\ epc' = "joining"
    /\ \/ ret' = "Ok"
       \/ ret' = "Io"
    /\ events' = metadata_events(events, ret')
    /\ UNCHANGED <<tarball_position, layer_events, download_result>>
    /\ UNCHANGED nonPoolVars
    /\ UNCHANGED <<idx, is_alive, pending, idle, dpc, slot, expected, hasher,
                   nread, file, buf, opened, requests, taken, completed,
                   consumed, applied>>

\* Threads of the pool that have not finished.
Running == idle + Cardinality({t \in Tasks : dpc[t] \in {"open", "check", "read"}})

\* thread::scope returns when every spawned thread has finished.
JoinWorkers ==
    /\ epc = "joining"
    /\ Running = 0
    /\ epc' = "returned"
    /\ UNCHANGED nonPoolVars
    /\ UNCHANGED <<events, tarball_position, layer_events, download_result>>
    /\ UNCHANGED <<idx, is_alive, ret, pending, idle, dpc, slot, expected,
                   hasher, nread, file, buf, opened, requests, taken,
                   completed, consumed, applied>>

Extractor ==
    \/ EnterGet
    \/ OpenRootfs
    \/ TaskGet
    \/ UnpackConfig
    \/ UnpackEntry
    \/ UnpackDone
    \/ ApplyMetadata
    \/ JoinWorkers

\* State at the entry of get(): the manifest names a digest for every blob.
Init ==
    /\ epc = "start"
    /\ idx = 0
    /\ is_alive = TRUE
    /\ ret = "None"
    /\ pending = <<>>
    /\ idle = 0
    /\ dpc = [t \in Tasks |-> "none"]
    /\ slot = [t \in Tasks |-> "None"]
    /\ expected \in [Tasks -> 0 .. HashMod - 1]
    /\ hasher = [t \in Tasks |-> 0]
    /\ nread = [t \in Tasks |-> 0]
    /\ file = [t \in Tasks |-> <<>>]
    /\ buf = [t \in Tasks |-> <<>>]
    /\ opened = [t \in Tasks |-> FALSE]
    /\ requests = [t \in Tasks |-> 0]
    /\ taken = [t \in Tasks |-> 0]
    /\ completed = [t \in Tasks |-> 0]
    /\ consumed = [t \in Tasks |-> 0]
    /\ applied = [t \in Tasks |-> 0]
    /\ events = NoEvents
    /\ download_result = [t \in Tasks |-> "None"]
    /\ tarball_position = 0
    /\ layer_events = NoLayerEvents
    /\ FsIdle
    /\ HttpIdle
    /\ UnpackIdle
    /\ QueueIdle
    /\ LayerIdle
    /\ MetaIdle

Next ==
    \/ Extractor
    \/ Worker

\* The download pool is not part of a specification.
PoolIdle ==
    /\ epc = "idle"
    /\ idx = 0
    /\ is_alive = TRUE
    /\ ret = "None"
    /\ pending = <<>>
    /\ idle = 0
    /\ dpc = [t \in Tasks |-> "none"]
    /\ slot = [t \in Tasks |-> "None"]
    /\ expected = [t \in Tasks |-> 0]
    /\ hasher = [t \in Tasks |-> 0]
    /\ nread = [t \in Tasks |-> 0]
    /\ file = [t \in Tasks |-> <<>>]
    /\ buf = [t \in Tasks |-> <<>>]
    /\ opened = [t \in Tasks |-> FALSE]
    /\ requests = [t \in Tasks |-> 0]
    /\ taken = [t \in Tasks |-> 0]
    /\ completed = [t \in Tasks |-> 0]
    /\ consumed = [t \in Tasks |-> 0]
    /\ applied = [t \in Tasks |-> 0]
    /\ events = NoEvents
    /\ download_result = [t \in Tasks |-> "None"]
    /\ tarball_position = 0
    /\ layer_events = NoLayerEvents

Spec == Init /\ [][Next]_vars

\* The threads are scheduled by the operating system and every request and
\* read returns: each thread that can take a step eventually takes one.
FairSpec == Spec /\ WF_vars(Extractor) /\ WF_vars(Worker)

\* ------------------------------------------------------------------------
\* Properties of the download pool and the extractor loop
\* ------------------------------------------------------------------------

Layers == 1 .. NumLayers

\* The extractor has finished with task t: its result was taken and, for a
\* layer, every entry of its archive was applied.
Extracted(t) == consumed[t] = 1 /\ (t > 0 => applied[t] = EntriesPerLayer)

\* C1: whatever the order in which the downloads complete, the extractor
\* takes the blobs in manifest order: nothing of task j is consumed or
\* applied before every task i < j is completely extracted, and at most one
\* layer is partly extracted at any time.
C1_ManifestOrder ==
    /\ \A j \in Tasks : (consumed[j] > 0 \/ applied[j] > 0) =>
            \A i \in Tasks : i < j => Extracted(i)
    /\ Cardinality({t \in Layers : applied[t] > 0 /\ applied[t] < EntriesPerLayer}) <= 1

\* The last layer's download has completed before the first layer's, the
\* extractor is in the middle of the first layer's entries.
C1_Witness ==
    /\ NumLayers >= 2
    /\ slot[NumLayers] = "Ok"
    /\ dpc[1] = "done"
    /\ epc = "unpack"
    /\ idx = 1
    /\ applied[1] > 0
    /\ applied[1] < EntriesPerLayer
    /\ applied[NumLayers] = 0

\* C3 (as claimed): unpack succeeds only if the bytes written to every
\* blob's file hash to the digest of its descriptor.
C3_WrittenBytesMatchDigest ==
    (epc = "returned" /\ ret = "Ok") =>
        \A t \in Tasks : check_hash(Hash(file[t]), expected[t])

\* C7 (as claimed): in every run every task is taken once, completed once
\* and consumed once by the extractor.
C7_ExactlyOnceInEveryRun ==
    /\ \A t \in Tasks : taken[t] <= 1 /\ completed[t] <= 1 /\ consumed[t] <= 1
    /\ epc = "returned" =>
          \A t \in Tasks : dpc[t] # "none" =>
              taken[t] = 1 /\ completed[t] = 1 /\ consumed[t] = 1

\* C7 (amended): every task is taken by exactly one worker and its slot is
\* populated exactly once in every run; its result is consumed at most once,
\* and exactly once in a run that succeeds.
C7_TakenCompletedOnce ==
    /\ \A t \in Tasks : taken[t] <= 1 /\ completed[t] <= 1 /\ consumed[t] <= 1
    /\ \A t \in Tasks : completed[t] <= taken[t] /\ consumed[t] <= completed[t]
    /\ epc = "returned" =>
          \A t \in Tasks : dpc[t] # "none" =>
              /\ taken[t] = 1
              /\ completed[t] = 1
              /\ (ret = "Ok" => consumed[t] = 1)

\* A failing run has returned: a task was downloaded and never consumed.
C7_Witness ==
    /\ epc = "returned"
    /\ ret \in Errors
    /\ \E t \in Tasks : taken[t] = 1 /\ completed[t] = 1 /\ consumed[t] = 0
    /\ \E t \in Tasks : consumed[t] = 1

\* The extractor has stopped on an error and the scope waits for the workers.
StoppedOnError == epc = "joining" /\ ret \in Errors

\* C8: when the extractor stops on an error the flag is cleared; a download
\* that reaches the test at its next chunk boundary ends with Interrupted;
\* every worker exits and unpack returns the error the extractor stopped on.
C8_StopOnError ==
    /\ [](StoppedOnError => ~is_alive)
    /\ [][\A t \in Tasks :
            (dpc[t] = "check" /\ ~is_alive /\ dpc'[t] # "check") =>
                (dpc'[t] = "done" /\ slot'[t] = "Interrupted")]_vars
    /\ [][StoppedOnError => ret' = ret]_vars
    /\ StoppedOnError ~> (epc = "returned" /\ ret \in Errors /\ Running = 0)

\* unpack has returned the error of a failed extraction, and a download that
\* was in progress when the extractor stopped has ended with Interrupted.
C8_Witness ==
    /\ epc = "returned"
    /\ ret = "Io"
    /\ ~is_alive
    /\ \E t \in Tasks : slot[t] = "Interrupted" /\ opened[t] /\ nread[t] > 0
    /\ \E t \in Tasks : applied[t] > 0

\* C9 (as claimed): once the flag is cleared no worker starts a download:
\* no blob request is sent and no output file is created.
C9_NoDownloadStartsAfterClear ==
    [][~is_alive => (requests' = requests /\ opened' = opened)]_vars

\* C11: in a run that reaches the download phase download_start is told
\* once and before any download_progress_bytes; finished is told once, as
\* the last event, in a run that succeeds and never in a run that fails.
C11_StartOnceFinishedLast ==
    /\ events.download_start <= 1
    /\ events.finished <= 1
    /\ (\E t \in Tasks : dpc[t] # "none") => events.download_start = 1
    /\ ~events.early
    /\ ~events.after
    /\ events.finished = 1 => ret = "Ok"
    /\ (epc = "returned" /\ ret = "Ok") => events.finished = 1
    /\ (epc = "returned" /\ ret \in Errors) => events.finished = 0

\* A run has succeeded after downloads that told their progress.
C11_Witness ==
    /\ epc = "returned"
    /\ ret = "Ok"
    /\ events.download_start = 1
    /\ events.finished = 1
    /\ \E t \in Tasks : nread[t] > 0

\* C23: for every layer that is extracted layer_start is told once, with
\* the length of the layer's file and before any layer_progress of the
\* layer; the positions told by layer_progress never decrease and none
\* exceeds that length.
C23_LayerProgressMonotonic ==
    \A t \in Layers :
        /\ layer_events[t].start <= 1
        /\ ~layer_events[t].early
        /\ applied[t] > 0 =>
              /\ layer_events[t].start = 1
              /\ layer_events[t].archive_len = archive_len(file[t])
        /\ layer_events[t].progress =>
              /\ layer_events[t].start = 1
              /\ layer_events[t].prev <= layer_events[t].last
              /\ layer_events[t].last <= layer_events[t].archive_len

\* The first layer is extracted: its progress went from the middle of its
\* file to the end; the second layer is in work and its progress is in the
\* middle of its file.
C23_Witness ==
    /\ NumLayers >= 2
    /\ Extracted(1)
    /\ layer_events[1].prev > 0
    /\ layer_events[1].prev < layer_events[1].last
    /\ layer_events[1].last = layer_events[1].archive_len
    /\ epc = "unpack"
    /\ idx = 2
    /\ layer_events[2].start = 1
    /\ layer_events[2].last > 0
    /\ layer_events[2].last < layer_events[2].archive_len

\* The extractor stops on the failure of the task it consumes.
TaskFails == ret = "None" /\ ret' \in Errors /\ epc \in {"get", "unpack"}

\* C29: the error that unpack returns for a failed task is the error of
\* the first task in manifest order whose download or extraction failed,
\* whatever other tasks have failed by then: every task before it was
\* downloaded and fully extracted, its own download failed with the error
\* returned or its extraction failed, and the error is not replaced later.
C29_FirstFailureInManifestOrder ==
    /\ [][TaskFails =>
            /\ \A i \in Tasks : i < idx' =>
                  (Extracted(i)' /\ download_result[i] = "Ok")
            /\ epc = "get" =>
                  (download_result[idx'] \in Errors /\ ret' = download_result[idx'])
            /\ epc = "unpack" =>
                  (idx' = idx /\ download_result[idx] = "Ok" /\ ret' = "Io")]_vars
    /\ [][ret # "None" => ret' = ret]_vars

\* unpack has returned the Http error of the first layer; the config blob
\* was extracted and the download of the second layer has failed by itself.
C29_Witness ==
    /\ NumLayers >= 2
    /\ epc = "returned"
    /\ ret = "Http"
    /\ Extracted(0)
    /\ download_result[1] = "Http"
    /\ download_result[2] = "InvalidData"
    /\ consumed[2] = 0

\* C28: an entry of a layer is applied only after the download of the
\* layer's blob has read the body to its end and found the hash of the
\* bytes read equal to the digest of the descriptor, and after the
\* extractor has taken that result: a download that is in progress, was
\* interrupted, failed or did not match is never extracted, not even in
\* part.
C28_OnlyVerifiedLayersExtracted ==
    \A t \in Layers :
        applied[t] > 0 =>
            /\ dpc[t] = "done"
            /\ download_result[t] = "Ok"
            /\ check_hash(hasher[t], expected[t])
            /\ completed[t] = 1
            /\ consumed[t] = 1

\* The first layer, whose body was read, is being extracted while the
\* download of the second layer is in progress and nothing of it is applied.
C28_Witness ==
    /\ NumLayers >= 2
    /\ applied[1] > 0
    /\ nread[1] > 0
    /\ dpc[2] = "read"
    /\ applied[2] = 0

\* C30: when every request and every read returns and the threads are
\* scheduled, unpack returns, so that no wait of the extractor on a task
\* lasts for ever, whether the task was completed before the extractor
\* looked at its slot or after it began to wait; and a worker that has not
\* finished can always take its next step, whatever the extractor does.
C30_UnpackTerminates ==
    /\ <>(epc = "returned")
    /\ [](Running > 0 => ENABLED Worker)

\* The extractor waits on the first layer, whose download is in progress,
\* while the second layer's download is complete.
C30_Witness ==
    /\ NumLayers >= 2
    /\ epc = "wait"
    /\ idx = 1
    /\ dpc[1] = "read"
    /\ slot[1] = "None"
    /\ slot[2] = "Ok"

\* ------------------------------------------------------------------------
\* images.rs: the work queue and the worker threads of get() for manifests
\* of up to ManyLayers layers. A download is what lies between the pop of
\* its task and Download::complete.
\* ------------------------------------------------------------------------

\* A pool with one thread for every task.
spawned_per_task(n) == n

\* for _ in 0..min(QUEUE_LIMIT, download_tasks.len()): the threads spawned.
spawned(n) == Min(QUEUE_LIMIT, n)

\* The tasks of a manifest with n - 1 layers, config first, as pending
\* holds them before the threads are spawned.
pending_of(n) == [i \in 1 .. n |-> i - 1]

\* pending.lock().map(|mut q| q.pop_front()) returns Some(task): the thread
\* runs run_download for it.
QueuePop ==
    /\ threads > 0
    /\ queue # <<>>
    /\ downloading' = downloading \cup {Head(queue)}
    /\ start_order' = Append(start_order, Head(queue))
    /\ queue' = pop_front(queue)
    /\ threads' = threads - 1
    /\ UNCHANGED download_tasks
    /\ UNCHANGED nonQueueVars

\* task.complete(run_download(..)): the thread is back at the head of its
\* loop.
QueueComplete ==
    /\ \E t \in downloading : downloading' = downloading \ {t}
    /\ threads' = threads + 1
    /\ UNCHANGED <<download_tasks, queue, start_order>>
    /\ UNCHANGED nonQueueVars

\* The pop returns None: the thread ends.
QueueExit ==
    /\ threads > 0
    /\ queue = <<>>
    /\ threads' = threads - 1
    /\ UNCHANGED <<download_tasks, queue, downloading, start_order>>
    /\ UNCHANGED nonQueueVars

\* get() has built download_tasks and pending and has spawned the threads.
InitQueue ==
    /\ download_tasks \in 1 .. ManyLayers + 1
    /\ queue = pending_of(download_tasks)
    /\ threads = spawned(download_tasks)
    /\ downloading = {}
    /\ start_order = <<>>
    /\ PoolIdle
    /\ FsIdle
    /\ HttpIdle
    /\ UnpackIdle
    /\ LayerIdle
    /\ MetaIdle

NextQueue ==
    \/ QueuePop
    \/ QueueComplete
    \/ QueueExit

SpecQueue == InitQueue /\ [][NextQueue]_vars

\* ------------------------------------------------------------------------
\* Properties of the work queue
\* ------------------------------------------------------------------------

\* C36: at most min(8, 1 + number of layers) downloads are in progress at
\* any moment, and the tasks are started in manifest order, the config
\* blob first: when task j is started, every task before j has been.
C36_BoundedInOrder ==
    /\ Cardinality(downloading) <= Min(8, download_tasks)
    /\ \A k \in 1 .. Len(start_order) : start_order[k] = k - 1

\* Eight downloads of a manifest with more than seven layers are in progress
\* and a ninth task waits in the queue.
C36_Witness ==
    /\ download_tasks > 8
    /\ Cardinality(downloading) = 8
    /\ queue # <<>>
    /\ threads = 0

\* ------------------------------------------------------------------------
\* images.rs, layers.rs: what the loop of get() and unpack_layer do with
\* the blobs of a manifest, by the media type that the manifest declares
\* for each of them. The first blob is the config, the others the layers.
\* ------------------------------------------------------------------------

\* The variants of MediaType: what the manifest can declare for a blob.
MediaTypes ==
    {"DockerFsTarGzip", "DockerImageV1", "DockerManifestList", "DockerManifestV2",
     "OciConfig", "OciFsTar", "OciFsTarGzip", "OciFsTarZstd", "OciImageIndex",
     "OciManifestV1"}

\* match blob.media_type in unpack_layer: "return" for the arm that returns
\* Ok(()), the decoder of the archive, or the error.
reader_of(media_type, feature_zstd) ==
    CASE media_type \in {"DockerImageV1", "OciConfig"} -> "return"
      [] media_type \in {"DockerFsTarGzip", "OciFsTarGzip"} -> "gzip"
      [] media_type = "OciFsTarZstd" /\ feature_zstd -> "zstd"
      [] media_type = "OciFsTar" -> "tar"
      [] OTHER -> "InvalidContentType"

\* The loop of get returns r.
LayersReturn(r) ==
    /\ lpc' = "returned"
    /\ lret' = r
    /\ UNCHANGED lidx

\* unpack_layer returns Ok(()) before it reads the blob's file.
StoreOnly ==
    /\ lpc = "loop"
    /\ lidx <= Len(blobs)
    /\ reader_of(blobs[lidx], zstd) = "return"
    /\ handled' = Append(handled, "stored")
    /\ lidx' = lidx + 1
    /\ UNCHANGED <<blobs, zstd, lpc, lret>>
    /\ UNCHANGED nonLayerVars

\* unpack_layer decodes the blob's file and applies the entries of the
\* archive to the rootfs, which succeeds or fails.
ExtractArchive ==
    /\ lpc = "loop"
    /\ lidx <= Len(blobs)
    /\ reader_of(blobs[lidx], zstd) \in {"gzip", "zstd", "tar"}
    /\ \/ /\ handled' = Append(handled, "extracted")
          /\ lidx' = lidx + 1
          /\ UNCHANGED <<lpc, lret>>
       \/ /\ handled' = Append(handled, "failed")
          /\ LayersReturn("Io")
    /\ UNCHANGED <<blobs, zstd>>
    /\ UNCHANGED nonLayerVars

\* unknown => return Err(UnpackError::InvalidContentType(unknown))
RejectMediaType ==
    /\ lpc = "loop"
    /\ lidx <= Len(blobs)
    /\ reader_of(blobs[lidx], zstd) = "InvalidContentType"
    /\ handled' = Append(handled, "failed")
    /\ LayersReturn("InvalidContentType")
    /\ UNCHANGED <<blobs, zstd>>
    /\ UNCHANGED nonLayerVars

\* The loop over download_tasks has ended.
LayersDone ==
    /\ lpc = "loop"
    /\ lidx > Len(blobs)
    /\ LayersReturn("Ok")
    /\ UNCHANGED <<blobs, zstd, handled>>
    /\ UNCHANGED nonLayerVars

\* The downloads of a manifest with a config blob and up to NumLayers layers
\* have succeeded; every blob has one of the media types.
InitLayer ==
    /\ blobs \in UNION {[1 .. n -> MediaTypes] : n \in 1 .. NumLayers + 1}
    /\ zstd \in BOOLEAN
    /\ lidx = 1
    /\ lpc = "loop"
    /\ lret = "None"
    /\ handled = <<>>
    /\ PoolIdle
    /\ FsIdle
    /\ HttpIdle
    /\ UnpackIdle
    /\ QueueIdle
    /\ MetaIdle

NextLayerStep ==
    \/ StoreOnly
    \/ ExtractArchive
    \/ RejectMediaType
    \/ LayersDone

SpecLayer == InitLayer /\ [][NextLayerStep]_vars

\* ------------------------------------------------------------------------
\* Properties of the handling of blobs
\* ------------------------------------------------------------------------

Parent(p) == SubSeq(p, 1, Len(p) - 1)

IsPrefix(p, q) == Len(p) <= Len(q) /\ SubSeq(q, 1, Len(p)) = p

NoTarget == [abs |-> FALSE, comps |-> <<>>]

DirNode == [type |-> "dir", data |-> 0, target |-> NoTarget]

FileNode(d) == [type |-> "file", data |-> d, target |-> NoTarget]

SymlinkNode(t) == [type |-> "symlink", data |-> 0, target |-> t]

\* The tree with node n at path p.
Put(f, p, n) == [q \in DOMAIN f \cup {p} |-> IF q = p THEN n ELSE f[q]]

\* The tree without the paths of set s.
Without(f, s) == [q \in DOMAIN f \ s |-> f[q]]

\* Path p and everything below it.
Subtree(f, p) == {q \in DOMAIN f : IsPrefix(p, q)}

\* What lies below directory p, without p.
Children(f, p) == Subtree(f, p) \ {p}

\* The target directory of the unpack, and the rootfs inside it.
TargetPath == <<"t">>

RootfsPath == <<"t", "rootfs">>

\* The host before the first entry is applied: a directory outside the
\* target, and in the target config.json and the empty rootfs.
HostInit ==
    (<<>> :> DirNode) @@ (<<"o">> :> DirNode) @@ (TargetPath :> DirNode)
    @@ (<<"t", "config.json">> :> FileNode(0)) @@ (RootfsPath :> DirNode)

Result(e, p) == [err |-> e, path |-> p]

\* The kernel's walk of the components rest from directory cur. mode is
\* "in_root" (RESOLVE_IN_ROOT: root is the walk's root), "beneath"
\* (RESOLVE_BENEATH: the walk may not leave root) or "host" (no flag). A
\* symlink in the last component is followed iff followLast. fuel is the
\* number of symlinks the walk may still follow.
RECURSIVE Walk(_, _, _, _, _, _, _)
Walk(f, root, cur, rest, mode, followLast, fuel) ==
    IF rest = <<>> THEN Result("ok", cur)
    ELSE IF cur \notin DOMAIN f THEN Result("ENOENT", cur)
    ELSE IF f[cur].type # "dir" THEN Result("ENOTDIR", cur)
    ELSE
      LET c == Head(rest)
          tl == Tail(rest)
      IN IF c = "." THEN Walk(f, root, cur, tl, mode, followLast, fuel)
         ELSE IF c = ".." THEN
            IF cur = root /\ mode = "in_root"
            THEN Walk(f, root, cur, tl, mode, followLast, fuel)
            ELSE IF cur = root /\ mode = "beneath" THEN Result("EXDEV", cur)
            ELSE IF cur = <<>> THEN Walk(f, root, cur, tl, mode, followLast, fuel)
            ELSE Walk(f, root, Parent(cur), tl, mode, followLast, fuel)
         ELSE
            LET p == Append(cur, c)
            IN IF p \notin DOMAIN f THEN Result("ENOENT", p)
               ELSE IF f[p].type = "symlink" /\ (tl # <<>> \/ followLast) THEN
                  IF fuel = 0 THEN Result("ELOOP", p)
                  ELSE IF f[p].target.abs THEN
                     IF mode = "beneath" THEN Result("EXDEV", p)
                     ELSE Walk(f, root, IF mode = "in_root" THEN root ELSE <<>>,
                               f[p].target.comps \o tl, mode, followLast, fuel - 1)
                  ELSE Walk(f, root, cur, f[p].target.comps \o tl, mode,
                            followLast, fuel - 1)
               ELSE Walk(f, root, p, tl, mode, followLast, fuel)

\* ------------------------------------------------------------------------
\* Descriptors and the system calls of the extractor
\* ------------------------------------------------------------------------

\* A descriptor names the node it was opened on by the node's path; live is
\* FALSE once that node has been removed from the tree.
Fd(p) == [path |-> p, live |-> TRUE]

\* The descriptor of the rootfs (Context::target).
RootFd == Fd(RootfsPath)

\* The path of name in the directory of descriptor d.
NodePath(d, name) == IF name = "." THEN d.path ELSE Append(d.path, name)

\* The walk of path from the directory at root without RESOLVE_IN_ROOT.
ResolveOnHost(f, root, path, followLast) ==
    Walk(f, root, root, path, "host", followLast, SymlinkFuel)

\* openat2(d, path, .., ResolveFlags::IN_ROOT | NO_MAGICLINKS): the
\* descriptor's directory, at root, is the root of the walk.
ResolveInRoot(f, root, path, followLast) ==
    Walk(f, root, root, path, "in_root", followLast, SymlinkFuel)

\* mkdirat(d, name, mode)
mkdirat(f, d, name) ==
    IF ~d.live THEN [err |-> "ENOENT", fs |-> f]
    ELSE IF NodePath(d, name) \in DOMAIN f THEN [err |-> "EEXIST", fs |-> f]
    ELSE [err |-> "ok", fs |-> Put(f, NodePath(d, name), DirNode)]

\* An open without O_EXCL: the file takes the place of whatever has the name.
create_file_over(f, d, name, data) ==
    IF ~d.live THEN [err |-> "ENOENT", fs |-> f]
    ELSE [err |-> "ok", fs |-> Put(f, NodePath(d, name), [type |-> "file", data |-> data, target |-> [abs |-> FALSE, comps |-> <<>>]])]

\* openat2(d, name, CREATE | EXCL | WRONLY, mode, BENEATH) for one component,
\* followed by the copy of the entry's bytes into the new file.
create_file(f, d, name, data) ==
    IF ~d.live THEN [err |-> "ENOENT", fs |-> f]
    ELSE IF NodePath(d, name) \in DOMAIN f THEN [err |-> "EEXIST", fs |-> f]
    ELSE [err |-> "ok", fs |-> Put(f, NodePath(d, name), FileNode(data))]

\* symlinkat(target, d, name)
symlinkat(f, target, d, name) ==
    IF ~d.live THEN [err |-> "ENOENT", fs |-> f]
    ELSE IF NodePath(d, name) \in DOMAIN f THEN [err |-> "EEXIST", fs |-> f]
    ELSE [err |-> "ok", fs |-> Put(f, NodePath(d, name), SymlinkNode(target))]

\* linkat(old, old_name, d, name, AtFlags::empty()): the last component of
\* the source is not followed.
linkat(f, old, old_name, d, name) ==
    IF ~old.live \/ old.path \notin DOMAIN f THEN [err |-> "ENOENT", fs |-> f]
    ELSE IF f[old.path].type # "dir" THEN [err |-> "ENOTDIR", fs |-> f]
    ELSE IF NodePath(old, old_name) \notin DOMAIN f THEN [err |-> "ENOENT", fs |-> f]
    ELSE IF ~d.live THEN [err |-> "ENOENT", fs |-> f]
    ELSE IF NodePath(d, name) \in DOMAIN f THEN [err |-> "EEXIST", fs |-> f]
    ELSE IF f[NodePath(old, old_name)].type = "dir" THEN [err |-> "EPERM", fs |-> f]
    ELSE [err |-> "ok", fs |-> Put(f, NodePath(d, name), f[NodePath(old, old_name)])]

\* unlinkat(d, name, AtFlags::empty())
unlinkat(f, d, name) ==
    IF ~d.live \/ NodePath(d, name) \notin DOMAIN f THEN [err |-> "ENOENT", fs |-> f]
    ELSE IF name = "." THEN [err |-> "EINVAL", fs |-> f]
    ELSE IF f[NodePath(d, name)].type = "dir" THEN [err |-> "EISDIR", fs |-> f]
    ELSE [err |-> "ok", fs |-> Without(f, {NodePath(d, name)})]

\* statat(d, name, AtFlags::empty()): the kernel follows a symlink in name,
\* with the host's root.
statat(f, d, name) ==
    IF ~d.live THEN Result("ENOENT", d.path)
    ELSE Walk(f, <<>>, d.path, <<name>>, "host", TRUE, SymlinkFuel)

\* st.st_mode & S_IFDIR != 0 for the result st of statat.
is_directory_stat(f, st) ==
    IF st.err # "ok" THEN [err |-> st.err, val |-> FALSE]
    ELSE [err |-> "ok", val |-> f[st.path].type = "dir"]

\* Context::is_directory
is_directory(f, d, name) == is_directory_stat(f, statat(f, d, name))

\* ------------------------------------------------------------------------
\* fs.rs: normalize_path, Directory::open_directory, DirFdCache
\* ------------------------------------------------------------------------

\* The loop of normalize_path over the components that are left: pp is
\* parent_path below "/", fn is file_name ("" while it is None).
RECURSIVE NormalizeFrom(_, _, _)
NormalizeFrom(comps, pp, fn) ==
    IF comps = <<>>
    THEN [err |-> "ok", parent |-> pp, name |-> IF fn = "" THEN "." ELSE fn]
    ELSE IF Head(comps) = "." THEN NormalizeFrom(Tail(comps), pp, fn)
    ELSE IF Head(comps) = ".."
    THEN [err |-> "InvalidData", parent |-> <<>>, name |-> "."]
    ELSE NormalizeFrom(Tail(comps), IF fn = "" THEN pp ELSE Append(pp, fn),
                       Head(comps))

\* A normalisation that lets ".." through as a name.
normalize_path_unchecked(path) ==
    [err |-> "ok", parent |-> Parent(path), name |-> path[Len(path)]]

\* normalize_path: (parent, file_name) of an entry's path, or InvalidData.
normalize_path(path) == NormalizeFrom(path, <<>>, "")

\* openat2(self, path, PATH | DIRECTORY | CLOEXEC, .., IN_ROOT | NO_MAGICLINKS)
\* for the walk's result r: the descriptor of a directory.
openat2_directory(f, r) ==
    [err |-> IF r.err = "ok" /\ f[r.path].type # "dir" THEN "ENOTDIR" ELSE r.err,
     fd |-> Fd(r.path), fs |-> f]

RECURSIVE open_directory(_, _, _, _)
RECURSIVE open_directory_missing(_, _, _, _)
RECURSIVE open_directory_mkdir(_, _, _, _)

\* mkdirat(parent, file_name, 0o755), then the loop opens path again.
open_directory_mkdir(root, path, par, mk) ==
    IF mk.err # "ok" THEN [err |-> mk.err, fd |-> par.fd, fs |-> mk.fs]
    ELSE open_directory(mk.fs, root, path, TRUE)

\* The directory does not exist and is to be created: a descriptor of the
\* parent par is needed for mkdirat.
open_directory_missing(root, path, par, name) ==
    IF par.err # "ok" THEN par
    ELSE open_directory_mkdir(root, path, par, mkdirat(par.fs, par.fd, name))

\* The match on the result o of openat2 in the loop of open_directory.
open_directory_match(f, root, path, create, o) ==
    IF ~(o.err = "ENOENT" /\ create) THEN o
    ELSE IF path = <<>> THEN [err |-> "ENOENT", fd |-> Fd(root), fs |-> f]
    ELSE open_directory_missing(root, path,
                                open_directory(f, root, Parent(path), create),
                                path[Len(path)])

\* Directory::open_directory(path, create) on the directory at root: the
\* descriptor of the directory, the error, and the tree with the
\* directories it made.
open_directory(f, root, path, create) ==
    open_directory_match(f, root, path, create,
                         openat2_directory(f, ResolveInRoot(f, root, path, TRUE)))

\* try_get_or_insert_ref: the result o of open_directory is cached when it
\* is a descriptor.
cache_insert(cache, path, o) ==
    [err |-> o.err, fd |-> o.fd, fs |-> o.fs,
     cache |-> IF o.err = "ok" THEN (path :> o.fd) @@ cache ELSE cache]

\* DirFdCache::get: the cached descriptor of path, or the one that
\* open_directory returns.
DirFdCache_get(cache, f, path, create) ==
    IF path \in DOMAIN cache
    THEN [err |-> "ok", fd |-> cache[path], fs |-> f, cache |-> cache]
    ELSE cache_insert(cache, path, open_directory(f, RootfsPath, path, create))

\* DirFdCache::new / DirFdCache::clear
EmptyCache == [p \in {} |-> RootFd]

\* The cached descriptors after the nodes at the paths of gone were removed.
KillCache(cache, gone) ==
    [p \in DOMAIN cache |->
        IF cache[p].path \in gone THEN [cache[p] EXCEPT !.live = FALSE]
        ELSE cache[p]]

\* cached_link_dirfd is <<>> for None and <<(path, fd)>> for Some.
KillLink(link, gone) ==
    IF link # <<>> /\ link[1].fd.path \in gone
    THEN <<[link[1] EXCEPT !.fd.live = FALSE]>>
    ELSE link

\* ------------------------------------------------------------------------
\* fs.rs: remove_entry and remove_subtree
\* ------------------------------------------------------------------------

\* remove_entry(d, name): removes the entry name of the directory, with its
\* subtree when it is a directory, and tells what it removed; a missing
\* entry is not an error; "." and ".." are refused.
remove_entry(f, d, name) ==
    IF name \in {".", ".."}
    THEN [err |-> "InvalidInput", fs |-> f, removed |-> "None", gone |-> {}]
    ELSE IF ~d.live \/ NodePath(d, name) \notin DOMAIN f
    THEN [err |-> "ok", fs |-> f, removed |-> "NotFound", gone |-> {}]
    ELSE [err |-> "ok",
          fs |-> Without(f, Subtree(f, NodePath(d, name))),
          removed |-> IF f[NodePath(d, name)].type = "dir" THEN "Directory"
                      ELSE "Other",
          gone |-> Subtree(f, NodePath(d, name))]

\* remove_subtree(d, "."): removes everything below the directory and keeps
\* the directory.
remove_subtree(f, d, name) ==
    IF ~d.live \/ NodePath(d, name) \notin DOMAIN f
    THEN [err |-> "ok", fs |-> f, gone |-> {}]
    ELSE [err |-> "ok",
          fs |-> Without(f, Children(f, NodePath(d, name))),
          gone |-> Children(f, NodePath(d, name))]

\* ------------------------------------------------------------------------
\* layers.rs: Context and its handlers. A handler takes the state of the
\* extraction (the tree f, dirs_cache, cached_link_dirfd, dirs_metadata) and
\* returns its result with the state it leaves.
\* ------------------------------------------------------------------------

\* A strip_prefix that takes ".wh.." and ".wh..." for names without the
\* prefix.
strip_prefix_of_names(name) ==
    CASE name = ".wh.a" -> "a"
      [] name = ".wh.b" -> "b"
      [] name = ".wh..wh..opq" -> WHITEOUT_OPAQUE
      [] OTHER -> ""

\* file_name.strip_prefix(WHITEOUT_PREFIX) over the names of the model:
\* the rest of the name, "" for None.
strip_prefix(name) ==
    CASE name = ".wh.a" -> "a"
      [] name = ".wh.b" -> "b"
      [] name = ".wh..wh..opq" -> WHITEOUT_OPAQUE
      [] name = ".wh.." -> "."
      [] name = ".wh..." -> ".."
      [] OTHER -> ""

Out(e, f, cache, link, meta) ==
    [err |-> e, fs |-> f, cache |-> cache, link |-> link, meta |-> meta]

\* The handler failed with e after the parent's descriptor g was obtained:
\* what open_directory made stays, file_name's directory is as it was.
Failed(e, g, link, meta) == Out(e, g.fs, g.cache, link, meta)

\* A whiteout handler that empties the directory for every name.
process_whiteout_opaque(f, d, whiteout) == remove_subtree(f, d, ".")

\* A whiteout handler that knows no opaque marker.
process_whiteout_plain(f, d, whiteout) == remove_entry(f, d, whiteout)

\* Context::process_whiteout(dir, whiteout)
process_whiteout(f, d, whiteout) ==
    IF whiteout = WHITEOUT_OPAQUE
    THEN remove_subtree(f, d, ".")
    ELSE remove_entry(f, d, whiteout)

\* self.dirs_cache.clear() after process_whiteout returned rm.
whiteout_done(g, link, meta, rm) ==
    IF rm.err # "ok" THEN Out(rm.err, rm.fs, g.cache, link, meta)
    ELSE Out("ok", rm.fs, EmptyCache, KillLink(link, rm.gone), meta)

\* process_whiteout on the descriptor g of the parent.
whiteout_in(g, link, meta, whiteout) ==
    IF g.err # "ok" THEN Failed(g.err, g, link, meta)
    ELSE whiteout_done(g, link, meta, process_whiteout(g.fs, g.fd, whiteout))

\* Context::unpack for a whiteout: path_fd(parent_path), process_whiteout,
\* dirs_cache.clear().
unpack_whiteout(f, cache, link, meta, pp, whiteout) ==
    whiteout_in(DirFdCache_get(cache, f, pp, TRUE), link, meta, whiteout)

\* The result mk of mkdirat in unpack_dir: an error is returned only when it
\* is AlreadyExists and the entry is not a directory (isd); the metadata of
\* the directory is recorded.
unpack_dir_made(g, link, meta, path, mk, isd) ==
    IF mk.err = "EEXIST" /\ isd.err # "ok" THEN Failed(isd.err, g, link, meta)
    ELSE IF mk.err = "EEXIST" /\ ~isd.val THEN Failed("EEXIST", g, link, meta)
    ELSE Out("ok", mk.fs, g.cache, link, meta \cup {path})

unpack_dir_in(g, link, meta, pp, name) ==
    IF g.err # "ok" THEN Failed(g.err, g, link, meta)
    ELSE unpack_dir_made(g, link, meta, Append(pp, name),
                         mkdirat(g.fs, g.fd, name), is_directory(g.fs, g.fd, name))

\* Context::unpack_dir
unpack_dir(f, cache, link, meta, pp, name) ==
    unpack_dir_in(DirFdCache_get(cache, f, pp, TRUE), link, meta, pp, name)

\* The second turn of the loop of unpack_regular, after remove_entry: cr is
\* the result of openat2.
unpack_regular_retry(g, link, meta, cr, gone) ==
    Out(cr.err, cr.fs, KillCache(g.cache, gone), KillLink(link, gone), meta)

\* remove_entry returned rm: the key of a removed directory leaves
\* dirs_metadata, and the loop creates the file.
unpack_regular_removed(g, link, meta, path, name, data, rm) ==
    IF rm.err # "ok" THEN Failed(rm.err, g, link, meta)
    ELSE unpack_regular_retry(g, link,
            IF rm.removed = "Directory" THEN meta \ {path} ELSE meta,
            create_file(rm.fs, g.fd, name, data), rm.gone)

\* The match on the result cr of openat2 in the loop of unpack_regular.
unpack_regular_match(g, link, meta, path, name, data, cr) ==
    IF cr.err = "ok" THEN Out("ok", cr.fs, g.cache, link, meta)
    ELSE IF cr.err # "EEXIST" THEN Failed(cr.err, g, link, meta)
    ELSE unpack_regular_removed(g, link, meta, path, name, data,
                                remove_entry(g.fs, g.fd, name))

unpack_regular_in(g, link, meta, pp, name, data) ==
    IF g.err # "ok" THEN Failed(g.err, g, link, meta)
    ELSE unpack_regular_match(g, link, meta, Append(pp, name), name, data,
                              create_file(g.fs, g.fd, name, data))

\* Context::unpack_regular
unpack_regular(f, cache, link, meta, pp, name, data) ==
    unpack_regular_in(DirFdCache_get(cache, f, pp, TRUE), link, meta, pp, name, data)

\* The second turn of the loop of unpack_link for a symlink, after unlinkat
\* removed the paths of gone: s is the result of symlinkat.
unpack_symlink_retry(g, link, meta, s, gone) ==
    Out(s.err, s.fs, KillCache(g.cache, gone), KillLink(link, gone), meta)

\* unlinkat returned u.
unpack_symlink_unlinked(g, link, meta, name, target, u) ==
    IF u.err # "ok" THEN Failed(u.err, g, link, meta)
    ELSE unpack_symlink_retry(g, link, meta, symlinkat(u.fs, target, g.fd, name),
                              {NodePath(g.fd, name)})

\* The match on the result s of symlinkat in the loop of unpack_link.
unpack_symlink_match(g, link, meta, name, target, s) ==
    IF s.err = "ok" THEN Out("ok", s.fs, g.cache, link, meta)
    ELSE IF s.err # "EEXIST" THEN Failed(s.err, g, link, meta)
    ELSE unpack_symlink_unlinked(g, link, meta, name, target,
                                 unlinkat(g.fs, g.fd, name))

unpack_symlink_in(g, link, meta, name, target) ==
    IF g.err # "ok" THEN Failed(g.err, g, link, meta)
    ELSE unpack_symlink_match(g, link, meta, name, target,
                              symlinkat(g.fs, target, g.fd, name))

\* Context::unpack_link for a symbolic link
unpack_symlink(f, cache, link, meta, pp, name, target) ==
    unpack_symlink_in(DirFdCache_get(cache, f, pp, TRUE), link, meta, name, target)

\* openat2(root_fd, old_parent, PATH | NOFOLLOW, .., IN_ROOT | NO_MAGICLINKS)
\* for the walk's result r.
openat2_nofollow(r) == [err |-> r.err, fd |-> Fd(r.path)]

\* The descriptor of the directory of a hard link's source: the cached one
\* when its path is old_parent, a new one otherwise.
old_dirfd(f, link, old_parent) ==
    IF link # <<>> /\ link[1].path = old_parent
    THEN [err |-> "ok", fd |-> link[1].fd]
    ELSE openat2_nofollow(ResolveInRoot(f, RootfsPath, old_parent, FALSE))

\* The second turn of the loop of unpack_link for a hard link: l is the
\* result of linkat.
unpack_hardlink_retry(g, link, meta, l, gone) ==
    Out(l.err, l.fs, KillCache(g.cache, gone), link, meta)

\* unlinkat returned u: the loop takes the cached descriptor and links.
unpack_hardlink_unlinked(g, link, meta, n, name, u) ==
    IF u.err # "ok" THEN Failed(u.err, g, link, meta)
    ELSE unpack_hardlink_retry(g, link, meta,
                               linkat(u.fs, link[1].fd, n.name, g.fd, name),
                               {NodePath(g.fd, name)})

\* The match on the result l of linkat in the loop of unpack_link; link is
\* cached_link_dirfd after the call.
unpack_hardlink_match(g, link, meta, n, name, l) ==
    IF l.err = "ok" THEN Out("ok", l.fs, g.cache, link, meta)
    ELSE IF l.err # "EEXIST" THEN Failed(l.err, g, link, meta)
    ELSE unpack_hardlink_unlinked(g, KillLink(link, {NodePath(g.fd, name)}),
                                  meta, n, name, unlinkat(g.fs, g.fd, name))

\* The first turn of the loop with the descriptor old of the source's
\* directory.
unpack_hardlink_from(g, meta, n, name, old) ==
    IF old.err # "ok" THEN Failed(old.err, g, <<>>, meta)
    ELSE unpack_hardlink_match(g, <<[path |-> n.parent, fd |-> old.fd]>>, meta,
                               n, name, linkat(g.fs, old.fd, n.name, g.fd, name))

\* n is normalize_path(&dest).
unpack_hardlink_in(g, link, meta, name, n) ==
    IF g.err # "ok" THEN Failed(g.err, g, link, meta)
    ELSE IF n.err # "ok" THEN Failed(n.err, g, link, meta)
    ELSE unpack_hardlink_from(g, meta, n, name, old_dirfd(g.fs, link, n.parent))

\* Context::unpack_link for a hard link
unpack_hardlink(f, cache, link, meta, pp, name, dest) ==
    unpack_hardlink_in(DirFdCache_get(cache, f, pp, TRUE), link, meta, name,
                       normalize_path(dest))

\* ------------------------------------------------------------------------
\* layers.rs: the entries of the archives and Context::unpack
\* ------------------------------------------------------------------------

Names == {"a", "b"}

\* Paths of one to MaxDepth names.
PlainPaths == UNION {[1 .. n -> Names] : n \in 1 .. MaxDepth}

WhiteoutNames == {".wh.a", ".wh.b", ".wh..wh..opq", ".wh..", ".wh..."}

\* Whiteouts in the rootfs and in its directories.
WhiteoutPaths ==
    {Append(p, w) : p \in {<<>>} \cup {<<n>> : n \in Names}, w \in WhiteoutNames}

\* Paths with a ".." as first, last and middle component.
DotDotPaths == {<<"..", "a">>, <<"a", "..">>, <<"a", "..", "b">>, <<"..", ".wh.a">>}

\* Targets of symlinks: "/" and "../../b".
LinkTargets ==
    {[abs |-> TRUE, comps |-> <<>>], [abs |-> FALSE, comps |-> <<"..", "..", "b">>]}

\* Link names of hard links.
LinkSources == {<<"b">>, <<"a", "b">>, <<"b", "a">>}

EntryTypes == {"dir", "file", "symlink", "link", "other"}

Entry(t, p, tg, src, d) ==
    [type |-> t, path |-> p, target |-> tg, src |-> src, data |-> d]

NoEntry == Entry("none", <<>>, NoTarget, <<>>, 0)

\* The entries an archive can hold.
Entries ==
    {Entry("dir", p, NoTarget, <<>>, 0) : p \in PlainPaths \cup DotDotPaths}
    \cup {Entry("file", p, NoTarget, <<>>, d) :
            p \in PlainPaths \cup WhiteoutPaths \cup DotDotPaths, d \in 1 .. NumData}
    \cup {Entry("symlink", p, t, <<>>, 0) : p \in PlainPaths, t \in LinkTargets}
    \cup {Entry("link", p, NoTarget, s, 0) : p \in PlainPaths, s \in LinkSources}
    \cup {Entry("link", <<"a">>, NoTarget, <<"..", "b">>, 0)}
    \cup {Entry("other", p, NoTarget, <<>>, 0) :
            p \in PlainPaths \cup DotDotPaths \cup {<<".wh.a">>}}

\* The branch of Context::unpack that an entry of type t takes when
\* normalize_path returns n.
Branch(t, n) ==
    IF n.err # "ok" THEN "reject"
    ELSE IF strip_prefix(n.name) # "" THEN "whiteout"
    ELSE IF t \in {"dir", "file", "symlink", "link"} THEN t
    ELSE "skip"

EntryKind(e) == Branch(e.type, normalize_path(e.path))

\* Context::unpack after normalize_path returned n, by branch k.
unpack_branch(f, cache, link, meta, e, n, k) ==
    CASE k = "reject" -> Out(n.err, f, cache, link, meta)
      [] k = "whiteout" ->
             unpack_whiteout(f, cache, link, meta, n.parent, strip_prefix(n.name))
      [] k = "dir" -> unpack_dir(f, cache, link, meta, n.parent, n.name)
      [] k = "file" -> unpack_regular(f, cache, link, meta, n.parent, n.name, e.data)
      [] k = "symlink" ->
             unpack_symlink(f, cache, link, meta, n.parent, n.name, e.target)
      [] k = "link" -> unpack_hardlink(f, cache, link, meta, n.parent, n.name, e.src)
      [] OTHER -> Out("ok", f, cache, link, meta)

\* Context::unpack(entry)
unpack(f, cache, link, meta, e) ==
    unpack_branch(f, cache, link, meta, e, normalize_path(e.path), EntryKind(e))

\* unpack_layer on the entries es of an archive, from state st: the state
\* after the last entry, or after the first one that fails.
RECURSIVE unpack_entries(_, _)
unpack_entries(st, es) ==
    IF es = <<>> \/ st.err # "ok" THEN st
    ELSE unpack_entries(unpack(st.fs, st.cache, st.link, st.meta, Head(es)), Tail(es))

\* Archives of the layer below the layers whose entries are enumerated.
BaseLayers ==
    {<<>>,
     <<Entry("dir", <<"b">>, NoTarget, <<>>, 0)>>,
     <<Entry("dir", <<"b">>, NoTarget, <<>>, 0),
       Entry("file", <<"b", "a">>, NoTarget, <<>>, 1)>>}

\* Entries by the branch of Context::unpack they take.
RejectedEntries == {e \in Entries : EntryKind(e) = "reject"}

WhiteoutEntries == {e \in Entries : EntryKind(e) = "whiteout"}

DirEntries == {e \in Entries : EntryKind(e) = "dir"}

RegularEntries == {e \in Entries : EntryKind(e) = "file"}

SymlinkEntries == {e \in Entries : EntryKind(e) = "symlink"}

HardlinkEntries == {e \in Entries : EntryKind(e) = "link"}

SkippedEntries == {e \in Entries : EntryKind(e) = "skip"}

\* A match on the entry type that reports nothing.
layer_entry_skipped_never(k) == 0

\* The calls of event_handler.layer_entry_skipped by Context::unpack on an
\* entry that takes branch k: one in the last arm of the match on the
\* entry type.
layer_entry_skipped(k) == IF k = "skip" THEN 1 ELSE 0

\* One entry of the current layer goes through Context::unpack; unpack_layer
\* returns the first error.
Apply(e) ==
    /\ nentries < MaxEntries
    /\ \E o \in {unpack(fs, dirs_cache, cached_link_dirfd, dirs_metadata, e)} :
          /\ fs' = o.fs
          /\ dirs_cache' = o.cache
          /\ cached_link_dirfd' = o.link
          /\ dirs_metadata' = o.meta
          /\ fpc' = IF o.err = "ok" THEN "run" ELSE "failed"
          /\ ferr' = o.err
    /\ entry_skipped' = layer_entry_skipped(EntryKind(e))
    /\ last' = e
    /\ nentries' = nentries + 1
    /\ UNCHANGED stamped
    /\ UNCHANGED nonFsVars

RejectEntry == \E e \in RejectedEntries : fpc = "run" /\ Apply(e)

UnpackWhiteout == \E e \in WhiteoutEntries : fpc = "run" /\ Apply(e)

UnpackDir == \E e \in DirEntries : fpc = "run" /\ Apply(e)

UnpackRegular == \E e \in RegularEntries : fpc = "run" /\ Apply(e)

UnpackSymlink == \E e \in SymlinkEntries : fpc = "run" /\ Apply(e)

UnpackHardlink == \E e \in HardlinkEntries : fpc = "run" /\ Apply(e)

SkipEntry == \E e \in SkippedEntries : fpc = "run" /\ Apply(e)

\* ------------------------------------------------------------------------
\* mod.rs, images.rs: the deferred metadata of the directories
\* ------------------------------------------------------------------------

\* The bytes of the names of a path.
RECURSIVE names_len(_)
names_len(path) ==
    IF path = <<>> THEN 0 ELSE Len(Head(path)) + names_len(Tail(path))

\* path.as_os_str().as_bytes().len() of the recorded path: "/" and the
\* names, with "/" between them.
path_len(path) ==
    IF path = <<>> THEN 1
    ELSE Len(path) + names_len(path)

\* The order of the bytes of two names.
NameRank(c) == CASE c = "." -> 0 [] c = "a" -> 1 [] c = "b" -> 2 [] OTHER -> 3

\* Ord of PathBuf: component by component, a prefix before its extensions.
RECURSIVE PathLess(_, _)
PathLess(p, q) ==
    IF q = <<>> THEN FALSE
    ELSE IF p = <<>> THEN TRUE
    ELSE IF Head(p) # Head(q) THEN NameRank(Head(p)) < NameRank(Head(q))
    ELSE PathLess(Tail(p), Tail(q))

\* DirectoryMetadataEntry::key
key(path) == <<usize_MAX - path_len(path), path>>

\* Ord of (usize, PathBuf)
KeyLess(k, l) == k[1] < l[1] \/ (k[1] = l[1] /\ PathLess(k[2], l[2]))

\* The paths of set meta in the order of their keys in the BTreeMap.
RECURSIVE sorted_keys(_)
sorted_keys(meta) ==
    IF meta = {} THEN <<>>
    ELSE LET first == CHOOSE p \in meta :
                        \A q \in meta \ {p} : KeyLess(key(p), key(q))
         IN <<first>> \o sorted_keys(meta \ {first})

\* What one update did: the nodes whose owner, mode and times it changed
\* (<<>> for none) and its error.
Stamp(path, owner, mode, times, err) ==
    [path |-> path, owner |-> owner, mode |-> mode, times |-> times, err |-> err]

\* chmodat(parent, file_name, mode, AtFlags::empty()) follows a symlink in
\* file_name; change_owner and utimensat (SYMLINK_NOFOLLOW) act on the node
\* itself, and an error of chownat is ignored. st is the walk of chmodat.
update_in(f, path, d, name, st) ==
    IF ~d.live \/ NodePath(d, name) \notin DOMAIN f
    THEN Stamp(path, <<>>, <<>>, <<>>, "ENOENT")
    ELSE IF st.err # "ok"
    THEN Stamp(path, NodePath(d, name), <<>>, <<>>, st.err)
    ELSE Stamp(path, NodePath(d, name), st.path, NodePath(d, name), "ok")

\* The closure update of get for one recorded path, with the result g of
\* dirs_cache.get(&parent_path, false).
update(g, path, name) ==
    IF g.err # "ok" THEN Stamp(path, <<>>, <<>>, <<>>, g.err)
    ELSE update_in(g.fs, path, g.fd, name, statat(g.fs, g.fd, name))

\* if let Err(e) = update() { if e.kind() != NotFound { return Err(..) } }
RECURSIVE apply_metadata(_, _, _, _)
apply_metadata_next(f, g, keys, log, u) ==
    IF u.err \notin {"ok", "ENOENT"} THEN [err |-> u.err, log |-> Append(log, u)]
    ELSE apply_metadata(f, g.cache, Tail(keys), Append(log, u))

apply_metadata_get(f, g, keys, log, n) ==
    apply_metadata_next(f, g, keys, log, update(g, Head(keys), n.name))

apply_metadata_key(f, cache, keys, log, n) ==
    apply_metadata_get(f, DirFdCache_get(cache, f, n.parent, FALSE), keys, log, n)

\* for ((_, path), entry) in dirs_mtimes
apply_metadata(f, cache, keys, log) ==
    IF keys = <<>> THEN [err |-> "ok", log |-> log]
    ELSE apply_metadata_key(f, cache, keys, log, normalize_path(Head(keys)))

\* unpack_layer for the next layer: Context::new.
BeginLayer ==
    /\ fpc = "run"
    /\ dirs_cache' = EmptyCache
    /\ cached_link_dirfd' = <<>>
    /\ last' = NoEntry
    /\ entry_skipped' = 0
    /\ UNCHANGED <<fs, dirs_metadata, fpc, ferr, nentries, stamped>>
    /\ UNCHANGED nonFsVars

\* The archive of the last layer has no more entries: get goes through
\* dirs_mtimes with a new DirFdCache and returns the first error that is
\* not NotFound.
EndLayers ==
    /\ fpc = "run"
    /\ \E r \in {apply_metadata(fs, EmptyCache, sorted_keys(dirs_metadata), <<>>)} :
          /\ stamped' = r.log
          /\ fpc' = IF r.err = "ok" THEN "done" ELSE "failed"
          /\ ferr' = r.err
    /\ UNCHANGED <<fs, dirs_cache, cached_link_dirfd, dirs_metadata, last,
                   nentries, entry_skipped>>
    /\ UNCHANGED nonFsVars

\* The Context of a new layer over the rootfs that a layer below left.
InitFs ==
    /\ \E base \in BaseLayers :
         \E st \in {unpack_entries(Out("ok", HostInit, EmptyCache, <<>>, {}), base)} :
            /\ fs = st.fs
            /\ dirs_metadata = st.meta
    /\ dirs_cache = EmptyCache
    /\ cached_link_dirfd = <<>>
    /\ fpc = "run"
    /\ ferr = "ok"
    /\ last = NoEntry
    /\ nentries = 0
    /\ stamped = <<>>
    /\ entry_skipped = 0
    /\ PoolIdle
    /\ HttpIdle
    /\ UnpackIdle
    /\ QueueIdle
    /\ LayerIdle
    /\ MetaIdle

NextFs ==
    \/ RejectEntry
    \/ UnpackWhiteout
    \/ UnpackDir
    \/ UnpackRegular
    \/ UnpackSymlink
    \/ UnpackHardlink
    \/ SkipEntry
    \/ BeginLayer
    \/ EndLayers

SpecFs == InitFs /\ [][NextFs]_vars

\* ------------------------------------------------------------------------
\* Properties of the extraction
\* ------------------------------------------------------------------------

\* The step applies an entry.
EntryStep == nentries' # nentries

\* Path p exists in only one of the trees, or holds another node.
Changed(f, g, p) == p \notin DOMAIN f \/ p \notin DOMAIN g \/ f[p] # g[p]

\* Path p lies below the rootfs directory.
Beneath(p) == IsPrefix(RootfsPath, p) /\ p # RootfsPath

\* The host path of path p of the image.
InRootfs(p) == RootfsPath \o p

HasDotDot(p) == \E i \in 1 .. Len(p) : p[i] = ".."

RealDirectory(f, p) ==
    \A k \in 0 .. Len(p) :
        /\ InRootfs(SubSeq(p, 1, k)) \in DOMAIN f
        /\ f[InRootfs(SubSeq(p, 1, k))].type = "dir"

\* The whiteout of name w in directory D of tree f gave tree g: D/w and its
\* subtree are gone and every other node is as it was.
WhiteoutRemoved(f, g, D, w) ==
    /\ Subtree(g, Append(D, w)) = {}
    /\ \A p \in DOMAIN f \cup DOMAIN g :
          Changed(f, g, p) => IsPrefix(Append(D, w), p)

\* The opaque marker in directory D of tree f gave tree g: D is an empty
\* directory and every node that is not below D is as it was.
OpaqueEmptied(f, g, D) ==
    /\ D \in DOMAIN g
    /\ g[D].type = "dir"
    /\ Children(g, D) = {}
    /\ \A p \in DOMAIN f \cup DOMAIN g :
          Changed(f, g, p) => (IsPrefix(D, p) /\ p # D)

\* C4: a whiteout entry D/.wh.<name> that is applied to a directory D
\* removes D/<name>, a file or a directory with its subtree, and touches no
\* other node; the opaque marker D/.wh..wh..opq removes everything below D
\* and keeps D; the whiteout entry itself never becomes a node of the tree.
C4_Whiteouts ==
    [][\A e \in WhiteoutEntries :
         (EntryStep /\ last' = e /\ fpc' = "run"
            /\ RealDirectory(fs, normalize_path(e.path).parent)) =>
         /\ IF strip_prefix(normalize_path(e.path).name) = WHITEOUT_OPAQUE
            THEN OpaqueEmptied(fs, fs', InRootfs(normalize_path(e.path).parent))
            ELSE WhiteoutRemoved(fs, fs', InRootfs(normalize_path(e.path).parent),
                                 strip_prefix(normalize_path(e.path).name))
         /\ InRootfs(e.path) \notin DOMAIN fs']_vars

\* The whiteout .wh.a was applied in the rootfs: the directory a that a
\* directory entry made is gone, b is still there.
C4_Witness ==
    /\ fpc = "run"
    /\ last.path = <<".wh.a">>
    /\ <<"a">> \in dirs_metadata
    /\ InRootfs(<<"a">>) \notin DOMAIN fs
    /\ InRootfs(<<"b">>) \in DOMAIN fs

\* C5: an entry whose path has a ".." component fails the unpack with
\* InvalidData and leaves the tree, the caches and the metadata as they were.
C5_DotDotRejected ==
    [][(EntryStep /\ HasDotDot(last'.path)) =>
          /\ fpc' = "failed"
          /\ ferr' = "InvalidData"
          /\ fs' = fs
          /\ dirs_cache' = dirs_cache
          /\ cached_link_dirfd' = cached_link_dirfd
          /\ dirs_metadata' = dirs_metadata]_vars

\* The unpack has failed on a/../b after entries that made nodes.
C5_Witness ==
    /\ fpc = "failed"
    /\ ferr = "InvalidData"
    /\ last.path = <<"a", "..", "b">>
    /\ nentries > 1
    /\ Children(fs, RootfsPath) # {}

\* C6 (as claimed): a regular file whose parent path passes through a
\* symlink lands where the path leads with the rootfs as root: when the
\* parent path resolves in the rootfs to a directory other than the one its
\* components spell, the entry is applied and its file is in that directory.
C6_LandsWhereSymlinkLeads ==
    [][\A e \in RegularEntries :
         (EntryStep /\ last' = e /\ fpc = "run"
            /\ ResolveInRoot(fs, RootfsPath, normalize_path(e.path).parent, TRUE).err = "ok"
            /\ ResolveInRoot(fs, RootfsPath, normalize_path(e.path).parent, TRUE).path
                  # InRootfs(normalize_path(e.path).parent)
            /\ fs[ResolveInRoot(fs, RootfsPath, normalize_path(e.path).parent, TRUE).path].type = "dir") =>
         /\ fpc' = "run"
         /\ Append(ResolveInRoot(fs, RootfsPath, normalize_path(e.path).parent, TRUE).path,
                   normalize_path(e.path).name) \in DOMAIN fs'
         /\ fs'[Append(ResolveInRoot(fs, RootfsPath, normalize_path(e.path).parent, TRUE).path,
                       normalize_path(e.path).name)] = FileNode(e.data)]_vars

\* p is a proper ancestor of q.
Above(p, q) == IsPrefix(p, q) /\ p # q

\* The updates that restamped a directory.
Restamped == {i \in DOMAIN stamped : stamped[i].times # <<>> /\ fs[stamped[i].times].type = "dir"}

\* C12 (as claimed): the deferred metadata is applied only after every layer
\* has been extracted, and of two recorded directories of which one lies
\* inside the other, the inner one is restamped first.
C12_ChildFirst ==
    /\ stamped # <<>> => fpc \in {"done", "failed"}
    /\ \A i \in Restamped : \A j \in Restamped :
          Above(stamped[i].times, stamped[j].times) => j < i

\* The last name of path p.
FileName(p) == IF p = <<>> THEN "" ELSE p[Len(p)]

\* The names of path p before the last.
ParentOf(p) == IF p = <<>> THEN <<>> ELSE SubSeq(p, 1, Len(p) - 1)

NoSibling(f, e) ==
    /\ FileName(e.path) \in {".wh.a", ".wh.b"}
    /\ ~HasDotDot(e.path)
    /\ InRootfs(Append(ParentOf(e.path), strip_prefix(FileName(e.path)))) \notin DOMAIN f
    /\ \A k \in 0 .. Len(e.path) - 1 :
          InRootfs(SubSeq(e.path, 1, k)) \in DOMAIN f
             => f[InRootfs(SubSeq(e.path, 1, k))].type = "dir"

Touched(s) ==
    IF s.err = "ok" THEN {s.owner, s.mode, s.times}
    ELSE IF s.owner # <<>> THEN {s.owner}
    ELSE {}

\* C25 (as claimed): the deferred metadata changes mode, owner and times of
\* directories of the rootfs only: never of a regular file or a symlink
\* that occupies a recorded path at the end of the extraction, never of
\* what such a symlink points to, and of nothing outside the rootfs.
C25_OnlyDirectoriesInRootfs ==
    \A i \in DOMAIN stamped :
        \A n \in Touched(stamped[i]) :
            /\ n \in DOMAIN fs
            /\ fs[n].type = "dir"
            /\ IsPrefix(RootfsPath, n)

\* The step removed a node of the tree.
Removal == \E q \in DOMAIN fs : q \notin DOMAIN fs' \/ fs'[q] # fs[q]

\* C26 (as claimed): a step of the extractor that removes an entry leaves
\* the cache of directory descriptors empty, so whenever another entry can
\* be looked up every cached descriptor is the directory that its path
\* resolves to.
C26_CacheEmptiedAfterRemoval ==
    /\ [][(EntryStep /\ Removal /\ fpc' = "run") => dirs_cache' = EmptyCache]_vars
    /\ [](fpc = "run" =>
            \A p \in DOMAIN dirs_cache :
                /\ dirs_cache[p].live
                /\ ResolveInRoot(fs, RootfsPath, p, TRUE)
                       = Result("ok", dirs_cache[p].path))

\* C21: an entry whose name is no whiteout, whose path has no ".."
\* component and whose type is none of directory, regular file, symlink
\* and hard link is reported by one call of layer_entry_skipped; the step
\* changes neither the tree nor the recorded metadata nor the descriptors,
\* and the extraction is left running for the entries that follow. No
\* entry that is extracted is reported as skipped.
C21_UnsupportedEntrySkipped ==
    [][EntryStep =>
      /\ (/\ last'.type \notin {"dir", "file", "symlink", "link"}
          /\ strip_prefix(FileName(last'.path)) = ""
          /\ ~HasDotDot(last'.path))
             => /\ entry_skipped' = 1
                /\ fs' = fs
                /\ dirs_metadata' = dirs_metadata
                /\ dirs_cache' = dirs_cache
                /\ cached_link_dirfd' = cached_link_dirfd
                /\ fpc' = "run"
                /\ ferr' = "ok"
      /\ last'.type \in {"dir", "file", "symlink", "link"}
             => entry_skipped' = 0]_vars

\* An entry of an unsupported type was skipped after a directory and a
\* regular file had been extracted, and more entries can follow.
C21_Witness ==
    /\ fpc = "run"
    /\ nentries = 3
    /\ last.type = "other"
    /\ last.path = <<"a", "a">>
    /\ entry_skipped = 1
    /\ InRootfs(<<"a">>) \in DOMAIN fs
    /\ fs[InRootfs(<<"a">>)].type = "dir"
    /\ InRootfs(<<"a", "b">>) \in DOMAIN fs
    /\ fs[InRootfs(<<"a", "b">>)].type = "file"
    /\ InRootfs(<<"a", "a">>) \notin DOMAIN fs

\* What the claim on directory entries asks of a step on the entry e, given
\* the descriptor g of the entry's parent and the result mk of mkdirat:
\* a new directory is recorded; a name that is a directory is kept, with
\* the tree as it is, and recorded; anything else fails the unpack.
DirEntryAsClaimed(e, n, g, mk) ==
    IF g.err # "ok" THEN fpc' = "failed"
    ELSE IF mk.err = "ok"
    THEN /\ fpc' = "run"
         /\ fs' = mk.fs
         /\ dirs_metadata' = dirs_metadata \cup {Append(n.parent, n.name)}
    ELSE IF mk.err = "EEXIST" /\ g.fs[NodePath(g.fd, n.name)].type = "dir"
    THEN /\ fpc' = "run"
         /\ fs' = g.fs
         /\ dirs_metadata' = dirs_metadata \cup {Append(n.parent, n.name)}
    ELSE fpc' = "failed"

\* C32 (as claimed): a directory entry creates the directory and records
\* its metadata; when the name is a directory already the entry succeeds
\* and the directory stays as it is; when the creation fails for any other
\* reason, the name being something else than a directory included, the
\* unpack fails.
C32_DirectoryEntry ==
    [][(EntryStep /\ EntryKind(last') = "dir") =>
          \E n \in {normalize_path(last'.path)} :
             \E g \in {DirFdCache_get(dirs_cache, fs, n.parent, TRUE)} :
                DirEntryAsClaimed(last', n, g, mkdirat(g.fs, g.fd, n.name))]_vars

\* The tree g after the node at P, with what lies below it, was replaced
\* by a regular file with the bytes data: nothing else has changed.
Replaced(f, g, P, data) ==
    /\ DOMAIN g = (DOMAIN f \ Subtree(f, P)) \cup {P}
    /\ g[P] = FileNode(data)
    /\ \A q \in DOMAIN g \ {P} : g[q] = f[q]

LinkedFromSource(f, g, src, dst) ==
    \E r \in {ResolveInRoot(f, RootfsPath, src, FALSE)} :
       /\ r.err = "ok"
       /\ IsPrefix(RootfsPath, r.path)
       /\ dst \in DOMAIN g
       /\ g[dst] = f[r.path]

\* The path src names a file of the tree f through directories only, so
\* that a descriptor of its directory opened now leads to it.
NamesFile(f, src) ==
    \E n \in {normalize_path(src)} :
       /\ n.err = "ok"
       /\ \E p \in {ResolveInRoot(f, RootfsPath, n.parent, FALSE)} :
             /\ p.err = "ok"
             /\ p.path \in DOMAIN f
             /\ f[p.path].type = "dir"
             /\ NodePath(Fd(p.path), n.name) \in DOMAIN f
             /\ f[NodePath(Fd(p.path), n.name)].type # "dir"

\* C34 (as claimed): a hard link entry links its name to the file its source path
\* names in the rootfs when the entry is processed, with a descriptor of the
\* source's directory that is new or taken from cached_link_dirfd, also
\* after whiteouts and replacements of the layer: an entry that succeeds
\* has linked that file, an entry whose source names a file and whose name
\* is free succeeds, and a source path with ".." fails the unpack.
C34_HardlinkSource ==
    [][(EntryStep /\ EntryKind(last') = "link") =>
          \E d \in {normalize_path(last'.path)} :
             \E g \in {DirFdCache_get(dirs_cache, fs, d.parent, TRUE)} :
                /\ normalize_path(last'.src).err # "ok" => fpc' = "failed"
                /\ (g.err = "ok" /\ fpc' = "run")
                      => LinkedFromSource(g.fs, fs', last'.src, NodePath(g.fd, d.name))
                /\ (/\ g.err = "ok"
                    /\ g.fd.live
                    /\ NodePath(g.fd, d.name) \notin DOMAIN g.fs
                    /\ NamesFile(g.fs, last'.src))
                      => fpc' = "run"]_vars

\* The entries whose name is the opaque marker.
OpaqueEntries ==
    {e \in WhiteoutEntries : strip_prefix(normalize_path(e.path).name) = WHITEOUT_OPAQUE}

\* C35: the opaque marker in a directory D removes the children that D has
\* when the entry is processed, those of the layers below and those of
\* earlier entries of the layer alike, and nothing else; it leaves no mark:
\* an entry that comes after it and creates a name in D finds its node in
\* the tree, and neither the end of the layer nor the start of the next
\* removes anything.
C35_OpaqueAtThatMoment ==
    [][/\ \A e \in OpaqueEntries :
            (EntryStep /\ last' = e /\ fpc' = "run"
               /\ RealDirectory(fs, normalize_path(e.path).parent)) =>
            /\ DOMAIN fs' =
                  DOMAIN fs \ Children(fs, InRootfs(normalize_path(e.path).parent))
            /\ \A p \in DOMAIN fs' : fs'[p] = fs[p]
       /\ (/\ EntryStep
           /\ fpc' = "run"
           /\ EntryKind(last') \in {"dir", "file", "symlink", "link"}
           /\ RealDirectory(fs, normalize_path(last'.path).parent))
             => InRootfs(last'.path) \in DOMAIN fs'
       /\ ~EntryStep => fs' = fs]_vars

\* The opaque marker was applied in b after a hard link had been made from
\* b/a, a file of the layer below: b is empty and still there, and the link
\* a, outside b, is still there.
C35_Witness ==
    /\ fpc = "run"
    /\ last.path = <<"b", ".wh..wh..opq">>
    /\ cached_link_dirfd # <<>>
    /\ cached_link_dirfd[1].path = <<"b">>
    /\ InRootfs(<<"b">>) \in DOMAIN fs
    /\ Children(fs, InRootfs(<<"b">>)) = {}
    /\ InRootfs(<<"a">>) \in DOMAIN fs
    /\ fs[InRootfs(<<"a">>)].type = "file"

\* The recorded path p names nothing in the rootfs of tree f.
Missing(f, p) ==
    \E r \in {ResolveInRoot(f, RootfsPath, p, FALSE)} :
       r.err # "ok" \/ r.path \notin DOMAIN f

\* C39 (as claimed): in the updates after the last layer a recorded directory that no
\* longer exists is passed over and the updates go on with the next one
\* (the loop never ends at such a path); the loop ends early only with
\* the error of the update it ends at, which is not NotFound, and the
\* unpack has then failed; a loop that is not ended early has gone through
\* every recorded path.
C39_MissingDirectorySkipped ==
    [][(~EntryStep /\ fpc' # fpc) =>
          /\ \A k \in 1 .. Len(stamped') :
                Missing(fs, stamped'[k].path) => (k < Len(stamped') \/ fpc' = "done")
          /\ fpc' = "failed" =>
                /\ stamped' # <<>>
                /\ ferr' = stamped'[Len(stamped')].err
                /\ ferr' \notin {"ok", "ENOENT"}
          /\ fpc' = "done" => Len(stamped') = Cardinality(dirs_metadata)]_vars

\* ------------------------------------------------------------------------
\* mod.rs, layers.rs, images.rs: the map DirectoryMetadata. Directory
\* entries insert into it, a regular file that replaces a directory removes
\* from it, and get takes its pairs in key order after the last layer.
\* ------------------------------------------------------------------------

\* Paths of the directory entries; a/./b is another spelling of a/b.
MetaPaths == {<<"a">>, <<"b">>, <<"a", "b">>, <<"a", ".", "b">>}

\* The paths the entries record: parent_path with file_name pushed.
RecordedPaths == {Append(normalize_path(p).parent, normalize_path(p).name) : p \in MetaPaths}

\* header.mode() of a directory entry.
Modes == {448, 493}

\* header.mtime(): <<t>> for Ok(t), <<>> for Err.
Mtimes == {<<>>, <<1>>, <<2>>}

DirectoryMetadataEntry(mode, mtime) == [mode |-> mode, mtime |-> mtime]

\* An insert that leaves the value of a key that is in the map.
RECURSIVE BTreeMap_insert_keep(_, _, _)
BTreeMap_insert_keep(m, k, v) ==
    IF m = <<>> THEN <<[key |-> k, value |-> v]>>
    ELSE IF Head(m).key = k THEN m
    ELSE IF KeyLess(k, Head(m).key) THEN <<[key |-> k, value |-> v]>> \o m
    ELSE <<Head(m)>> \o BTreeMap_insert_keep(Tail(m), k, v)

\* self.dirs_metadata.insert(key, entry): the value of a key that is in the
\* map is replaced, a new key takes its place in the order of the keys.
RECURSIVE BTreeMap_insert(_, _, _)
BTreeMap_insert(m, k, v) ==
    IF m = <<>> THEN <<[key |-> k, value |-> v]>>
    ELSE IF Head(m).key = k THEN <<[key |-> k, value |-> v]>> \o Tail(m)
    ELSE IF KeyLess(k, Head(m).key) THEN <<[key |-> k, value |-> v]>> \o m
    ELSE <<Head(m)>> \o BTreeMap_insert(Tail(m), k, v)

\* self.dirs_metadata.remove(&key)
RECURSIVE BTreeMap_remove(_, _)
BTreeMap_remove(m, k) ==
    IF m = <<>> THEN <<>>
    ELSE IF Head(m).key = k THEN Tail(m)
    ELSE <<Head(m)>> \o BTreeMap_remove(Tail(m), k)

\* The end of unpack_dir for an entry with path p, mode and the result
\* mtime of header.mtime(): if let Ok(mtime) = header.mtime() { .. insert }.
RecordDirectory ==
    /\ mpc = "layers"
    /\ nrecorded < MaxRecords
    /\ \E p \in MetaPaths, mode \in Modes, mtime \in Mtimes :
          \E n \in {normalize_path(p)} :
             \E path \in {Append(n.parent, n.name)} :
                IF mtime # <<>>
                THEN /\ dirs_mtimes' =
                           BTreeMap_insert(dirs_mtimes, key(path),
                                           DirectoryMetadataEntry(mode, mtime[1]))
                     /\ recorded' =
                           [recorded EXCEPT
                              ![path] = Append(@, DirectoryMetadataEntry(mode, mtime[1]))]
                ELSE UNCHANGED <<dirs_mtimes, recorded>>
    /\ nrecorded' = nrecorded + 1
    /\ UNCHANGED <<updates, mpc>>
    /\ UNCHANGED nonMetaVars

\* unpack_regular found a directory under its name and removed it: the key
\* of the path is removed from the map.
RemoveRecord ==
    /\ mpc = "layers"
    /\ nrecorded < MaxRecords
    /\ \E path \in RecordedPaths :
          /\ dirs_mtimes' = BTreeMap_remove(dirs_mtimes, key(path))
          /\ recorded' = [recorded EXCEPT ![path] = <<>>]
    /\ nrecorded' = nrecorded + 1
    /\ UNCHANGED <<updates, mpc>>
    /\ UNCHANGED nonMetaVars

\* The last layer is unpacked: get starts the loop over dirs_mtimes.
BeginUpdates ==
    /\ mpc = "layers"
    /\ mpc' = "metadata"
    /\ UNCHANGED <<dirs_mtimes, recorded, updates, nrecorded>>
    /\ UNCHANGED nonMetaVars

\* One turn of for ((_, path), entry) in dirs_mtimes: the update of path
\* with the mode and mtime of entry.
UpdateNext ==
    /\ mpc = "metadata"
    /\ dirs_mtimes # <<>>
    /\ updates' = Append(updates, Head(dirs_mtimes))
    /\ dirs_mtimes' = Tail(dirs_mtimes)
    /\ UNCHANGED <<recorded, mpc, nrecorded>>
    /\ UNCHANGED nonMetaVars

\* The loop has ended.
UpdatesDone ==
    /\ mpc = "metadata"
    /\ dirs_mtimes = <<>>
    /\ mpc' = "done"
    /\ UNCHANGED <<dirs_mtimes, recorded, updates, nrecorded>>
    /\ UNCHANGED nonMetaVars

\* Unpacker::unpack creates the empty map before the first layer.
InitMeta ==
    /\ dirs_mtimes = <<>>
    /\ recorded = [p \in RecordedPaths |-> <<>>]
    /\ updates = <<>>
    /\ mpc = "layers"
    /\ nrecorded = 0
    /\ PoolIdle
    /\ FsIdle
    /\ HttpIdle
    /\ UnpackIdle
    /\ QueueIdle
    /\ LayerIdle

NextMeta ==
    \/ RecordDirectory
    \/ RemoveRecord
    \/ BeginUpdates
    \/ UpdateNext
    \/ UpdatesDone

SpecMeta == InitMeta /\ [][NextMeta]_vars

\* ------------------------------------------------------------------------
\* Properties of the map of directory metadata
\* ------------------------------------------------------------------------

\* The pairs of m have keys of different paths, and the value of each is
\* what the last directory entry of its path recorded.
LastRecorded(m) ==
    /\ \A i, j \in 1 .. Len(m) : m[i].key[2] = m[j].key[2] => i = j
    /\ \A i \in 1 .. Len(m) :
          /\ recorded[m[i].key[2]] # <<>>
          /\ m[i].value = recorded[m[i].key[2]][Len(recorded[m[i].key[2]])]

\* C40: a path that several directory entries record has one entry in the
\* map, with the metadata of the last of them; the loop of get updates
\* every recorded path once, with that metadata.
C40_LastEntryWins ==
    /\ LastRecorded(dirs_mtimes)
    /\ LastRecorded(updates)
    /\ mpc = "done" =>
          {updates[i].key[2] : i \in 1 .. Len(updates)}
             = {p \in RecordedPaths : recorded[p] # <<>>}

\* The path a/b was recorded by two entries with different metadata, under
\* two spellings or one, and the loop has updated it.
C40_Witness ==
    /\ mpc = "done"
    /\ Len(recorded[<<"a", "b">>]) = 2
    /\ recorded[<<"a", "b">>][1] # recorded[<<"a", "b">>][2]
    /\ \E i \in 1 .. Len(updates) :
          /\ updates[i].key[2] = <<"a", "b">>
          /\ updates[i].value = recorded[<<"a", "b">>][2]

\* ------------------------------------------------------------------------
\* http/mod.rs: the registry client. Threads call Client::send on requests
\* of their own and share the token slot. The registry and the token
\* service answer as they like.
\* ------------------------------------------------------------------------

Senders == 1 .. NumSenders

\* Option values: <<>> is None, <<v>> is Some(v).
None == <<>>

Some(v) == <<v>>

\* WWW-Authenticate headers of a 401 response: none, another scheme, a
\* Bearer challenge without realm, with an unterminated value, and
\* well-formed ones with the realm first and last.
Challenges ==
    {None,
     Some([scheme |-> "Basic", quoted |-> TRUE, params |-> <<"realm">>]),
     Some([scheme |-> "Bearer", quoted |-> TRUE, params |-> <<"service">>]),
     Some([scheme |-> "Bearer", quoted |-> FALSE, params |-> <<"realm", "service">>]),
     Some([scheme |-> "Bearer", quoted |-> TRUE, params |-> <<"realm", "service">>]),
     Some([scheme |-> "Bearer", quoted |-> TRUE, params |-> <<"service", "realm">>])}

\* The loop of build_auth_request over the parameters that are left: req is
\* None or the queries of the request to the realm, pend the parameters
\* seen before the realm.
RECURSIVE AuthRequestFrom(_, _, _)
AuthRequestFrom(params, req, pend) ==
    IF params = <<>> THEN req
    ELSE IF Head(params) = "realm"
    THEN AuthRequestFrom(Tail(params), Some(pend), <<>>)
    ELSE IF req # None
    THEN AuthRequestFrom(Tail(params), Some(Append(req[1], Head(params))), pend)
    ELSE AuthRequestFrom(Tail(params), req, Append(pend, Head(params)))

\* build_auth_request without the test of the scheme.
build_auth_request_any_scheme(h) ==
    IF h = None THEN None
    ELSE IF ~h[1].quoted \/ h[1].params = <<>> THEN None
    ELSE AuthRequestFrom(h[1].params, None, <<>>)

\* response.header("www-authenticate").and_then(build_auth_request)
build_auth_request(h) ==
    IF h = None THEN None
    ELSE IF h[1].scheme # "Bearer" \/ ~h[1].quoted \/ h[1].params = <<>> THEN None
    ELSE AuthRequestFrom(h[1].params, None, <<>>)

\* Bodies of the token service's answer that parse as Tokens, for the k-th
\* token it issues; 0 is the empty string.
TokenBodies(k) ==
    {[token |-> Some(k), access_token |-> None],
     [token |-> None, access_token |-> Some(k)],
     [token |-> Some(k), access_token |-> Some(0 - k)],
     [token |-> Some(0), access_token |-> None],
     [token |-> None, access_token |-> None]}

\* The match on Tokens: token, else access_token, else MissingTokens.
choose_token(body) ==
    IF body.token # None THEN body.token
    ELSE IF body.access_token # None THEN body.access_token
    ELSE None

\* token.insert_str(0, "Bearer ")
bearer(t) == <<"Bearer ", t>>

\* send returns r: the guards of the slot are dropped.
SendReturn(p, r) ==
    /\ hret' = [hret EXCEPT ![p] = r]
    /\ hpc' = [hpc EXCEPT ![p] = "done"]
    /\ readers' = readers \ {p}
    /\ writer' = IF writer = p THEN 0 ELSE writer

\* Client::get: a thread calls send with a new request.
SendStart(p) ==
    /\ hpc[p] \in {"idle", "done"}
    /\ sends[p] < MaxSends
    /\ sends' = [sends EXCEPT ![p] = @ + 1]
    /\ hpc' = [hpc EXCEPT ![p] = "read"]
    /\ hret' = [hret EXCEPT ![p] = "None"]
    /\ unauth' = [unauth EXCEPT ![p] = 0]
    /\ token_requests' = [token_requests EXCEPT ![p] = 0]
    /\ auth_calls' = [auth_calls EXCEPT ![p] = 0]
    /\ sent_auth' = [sent_auth EXCEPT ![p] = None]
    /\ cached_by' = [cached_by EXCEPT ![p] = None]
    /\ unauth_response' = [unauth_response EXCEPT ![p] = None]
    /\ UNCHANGED <<auth_token, readers, writer, issued>>
    /\ UNCHANGED nonHttpVars

\* self.auth_token.read(): with a token, the request gets the Authorization
\* header and is called under the read guard; without one the read guard is
\* dropped and the thread goes for the write guard.
ReadToken(p) ==
    /\ hpc[p] = "read"
    /\ writer = 0
    /\ IF auth_token # None
       THEN /\ readers' = readers \cup {p}
            /\ hpc' = [hpc EXCEPT ![p] = "call"]
       ELSE /\ hpc' = [hpc EXCEPT ![p] = "write"]
            /\ UNCHANGED readers
    /\ UNCHANGED <<auth_token, writer, hret, unauth, token_requests, auth_calls,
                   sent_auth, cached_by, issued, sends, unauth_response>>
    /\ UNCHANGED nonHttpVars

\* request.set("Authorization", auth).call()?: whatever the registry
\* answers is what send returns.
AuthorizedCall(p) ==
    /\ hpc[p] = "call"
    /\ auth_calls' = [auth_calls EXCEPT ![p] = @ + 1]
    /\ sent_auth' = [sent_auth EXCEPT ![p] = auth_token]
    /\ \E r \in {"Ok", "Status401", "Error"} : SendReturn(p, r)
    /\ UNCHANGED <<auth_token, unauth, token_requests, cached_by, issued, sends,
                   unauth_response>>
    /\ UNCHANGED nonHttpVars

\* self.auth_token.write()
WriteLock(p) ==
    /\ hpc[p] = "write"
    /\ writer = 0
    /\ readers = {}
    /\ writer' = p
    /\ hpc' = [hpc EXCEPT ![p] = "try"]
    /\ UNCHANGED <<auth_token, readers, hret, unauth, token_requests, auth_calls,
                   sent_auth, cached_by, issued, sends, unauth_response>>
    /\ UNCHANGED nonHttpVars

\* request.clone().call() with no token: Ok and errors other than 401 are
\* returned; a 401 is returned unless build_auth_request gives a request.
UnauthorizedCall(p) ==
    /\ hpc[p] = "try"
    /\ unauth' = [unauth EXCEPT ![p] = @ + 1]
    /\ \/ \E r \in {"Ok", "Error"} :
            /\ unauth_response' = [unauth_response EXCEPT
                   ![p] = Some([status |-> r, www_authenticate |-> None])]
            /\ SendReturn(p, r)
       \/ \E h \in Challenges :
            /\ unauth_response' = [unauth_response EXCEPT
                   ![p] = Some([status |-> "Status401", www_authenticate |-> h])]
            /\ IF build_auth_request(h) = None
               THEN SendReturn(p, "Status401")
               ELSE /\ hpc' = [hpc EXCEPT ![p] = "token"]
                    /\ UNCHANGED <<hret, readers, writer>>
    /\ UNCHANGED <<auth_token, token_requests, auth_calls, sent_auth, cached_by,
                   issued, sends>>
    /\ UNCHANGED nonHttpVars

\* auth_request.call()? and the parse of its body: an error of the call or
\* of the parse is returned, as is MissingTokens; a token is stored with
\* its prefix, the write guard is dropped and send calls itself.
TokenRequest(p) ==
    /\ hpc[p] = "token"
    /\ token_requests' = [token_requests EXCEPT ![p] = @ + 1]
    /\ \/ /\ \E r \in {"Error", "Json"} : SendReturn(p, r)
          /\ UNCHANGED <<auth_token, cached_by, issued>>
       \/ \E body \in TokenBodies(issued + 1) :
            IF choose_token(body) = None
            THEN /\ SendReturn(p, "MissingTokens")
                 /\ UNCHANGED <<auth_token, cached_by, issued>>
            ELSE /\ auth_token' = Some(bearer(choose_token(body)[1]))
                 /\ cached_by' = [cached_by EXCEPT ![p] = Some(bearer(choose_token(body)[1]))]
                 /\ issued' = issued + 1
                 /\ writer' = 0
                 /\ hpc' = [hpc EXCEPT ![p] = "read"]
                 /\ UNCHANGED <<hret, readers>>
    /\ UNCHANGED <<unauth, auth_calls, sent_auth, sends, unauth_response>>
    /\ UNCHANGED nonHttpVars

\* Client::new: no token, no thread in send.
InitHttp ==
    /\ auth_token = None
    /\ readers = {}
    /\ writer = 0
    /\ hpc = [p \in Senders |-> "idle"]
    /\ hret = [p \in Senders |-> "None"]
    /\ unauth = [p \in Senders |-> 0]
    /\ token_requests = [p \in Senders |-> 0]
    /\ auth_calls = [p \in Senders |-> 0]
    /\ sent_auth = [p \in Senders |-> None]
    /\ cached_by = [p \in Senders |-> None]
    /\ issued = 0
    /\ sends = [p \in Senders |-> 0]
    /\ unauth_response = [p \in Senders |-> None]
    /\ PoolIdle
    /\ FsIdle
    /\ UnpackIdle
    /\ QueueIdle
    /\ LayerIdle
    /\ MetaIdle

NextHttp ==
    \/ \E p \in Senders : SendStart(p)
    \/ \E p \in Senders : ReadToken(p)
    \/ \E p \in Senders : AuthorizedCall(p)
    \/ \E p \in Senders : WriteLock(p)
    \/ \E p \in Senders : UnauthorizedCall(p)
    \/ \E p \in Senders : TokenRequest(p)

SpecHttp == InitHttp /\ [][NextHttp]_vars

\* ------------------------------------------------------------------------
\* Properties of the registry client
\* ------------------------------------------------------------------------

\* The call of send by p ran the token exchange and has returned.
Exchanged(p) == hpc[p] = "done" /\ cached_by[p] # None

\* C10 (as claimed): a send that finds no token and gets a 401 with a
\* well-formed challenge makes one request without token, one request to
\* the realm, stores "Bearer <t>", and makes one more request, with that
\* value as Authorization header, whose outcome it returns.
C10_OneTokenRequestOneReplay ==
    \A p \in Senders :
        /\ unauth[p] <= 1
        /\ token_requests[p] <= 1
        /\ auth_calls[p] <= 1
        /\ Exchanged(p) =>
              /\ unauth[p] = 1
              /\ token_requests[p] = 1
              /\ auth_calls[p] = 1
              /\ sent_auth[p] = cached_by[p]
              /\ hret[p] \in {"Ok", "Status401", "Error"}

\* C16 (as claimed): a token is accepted from the token service only if it
\* is a non-empty string, so the token slot never holds the prefix followed
\* by an empty token, and no request is replayed with it.
C16_NonEmptyToken ==
    /\ auth_token # Some(bearer(0))
    /\ \A p \in Senders : sent_auth[p] # Some(bearer(0))

\* The 401 challenges that ask for a Bearer token: scheme Bearer, every
\* value quoted, a realm among the parameters.
BearerChallenge(h) ==
    /\ h # None
    /\ h[1].scheme = "Bearer"
    /\ h[1].quoted
    /\ \E i \in 1 .. Len(h[1].params) : h[1].params[i] = "realm"

\* The request without token of p was answered by an error other than 401,
\* or by a 401 without a usable Bearer challenge.
Refused(p) ==
    /\ unauth_response[p] # None
    /\ \/ unauth_response[p][1].status = "Error"
       \/ /\ unauth_response[p][1].status = "Status401"
          /\ ~BearerChallenge(unauth_response[p][1].www_authenticate)

\* C17: an error other than 401, and a 401 whose WWW-Authenticate header
\* is missing, is not a Bearer challenge or is malformed, is what send
\* returns; the send has made no request to a token service, has stored no
\* token and has made no other request, and the step that gets the answer
\* leaves the token slot as it is.
C17_ErrorsReturnedWithoutTokenRequest ==
    /\ [](\A p \in Senders :
            Refused(p) =>
                /\ hpc[p] = "done"
                /\ hret[p] = unauth_response[p][1].status
                /\ unauth[p] = 1
                /\ token_requests[p] = 0
                /\ auth_calls[p] = 0
                /\ cached_by[p] = None)
    /\ [][\A p \in Senders :
            (Refused(p)' /\ unauth_response'[p] # unauth_response[p])
                => auth_token' = auth_token]_vars

\* Two refusals have happened, a 401 with a Basic challenge and an error
\* other than 401, and the token slot is empty.
C17_Witness ==
    /\ auth_token = None
    /\ Refused(1)
    /\ Refused(2)
    /\ unauth_response[1][1].status = "Status401"
    /\ unauth_response[1][1].www_authenticate # None
    /\ unauth_response[1][1].www_authenticate[1].scheme = "Basic"
    /\ unauth_response[2][1].status = "Error"

\* C27 (as claimed): every registry request sent while the token slot holds
\* a token carries that token as its Authorization header: no thread sends
\* its request without token once a token is cached.
C27_NoUnauthenticatedRequestWithToken ==
    [][\A p \in Senders :
          /\ unauth'[p] > unauth[p] => auth_token = None
          /\ auth_calls'[p] > auth_calls[p] => sent_auth'[p] = auth_token]_vars

\* ------------------------------------------------------------------------
\* unpacker/mod.rs, manifests.rs: Unpacker::unpack. The registry answers
\* the manifest requests as it likes; images::get, which the download pool
\* and the extraction model in detail, is here the blob requests it sends
\* and the files it creates in the target.
\* ------------------------------------------------------------------------

Architectures == {"amd64", "arm64"}

OperatingSystems == {"linux", "windows"}

\* Digest strings of index entries: two well-formed ones and one that
\* Digest::try_from rejects.
DigestStrings == {"sha256:1", "sha256:2", "sha256"}

\* Digest::try_from: the digest, or None for a string that is rejected.
Digest_try_from(str) == IF str \in {"sha256:1", "sha256:2"} THEN Some(str) ELSE None

\* The entries of an index as parse_index decodes them.
IndexEntries ==
    [digest : DigestStrings, architecture : Architectures, os : OperatingSystems]

\* Bodies of a response: text that is not the JSON asked for, or a list of
\* index entries (empty for a manifest).
Bodies ==
    {[json |-> FALSE, manifests |-> <<>>]} \cup
    {[json |-> TRUE, manifests |-> m] :
        m \in UNION {[1 .. n -> IndexEntries] : n \in 0 .. MaxIndexEntries}}

\* Values of the Content-Type header: None for a response without one.
ContentTypes ==
    {None, Some("text/html"),
     Some("application/vnd.docker.distribution.manifest.list.v2+json"),
     Some("application/vnd.oci.image.index.v1+json"),
     Some("application/vnd.docker.distribution.manifest.v2+json"),
     Some("application/vnd.oci.image.manifest.v1+json"),
     Some("application/vnd.oci.image.config.v1+json"),
     Some("application/vnd.oci.image.layer.v1.tar+gzip")}

\* MediaType::from_str
MediaType_from_str(h) ==
    CASE h = "application/vnd.docker.distribution.manifest.list.v2+json" -> Some("DockerManifestList")
      [] h = "application/vnd.oci.image.index.v1+json" -> Some("OciImageIndex")
      [] h = "application/vnd.docker.distribution.manifest.v2+json" -> Some("DockerManifestV2")
      [] h = "application/vnd.oci.image.manifest.v1+json" -> Some("OciManifestV1")
      [] h = "application/vnd.oci.image.config.v1+json" -> Some("OciConfig")
      [] h = "application/vnd.oci.image.layer.v1.tar+gzip" -> Some("OciFsTarGzip")
      [] OTHER -> None

IsIndexType(h) ==
    h \in {Some("application/vnd.docker.distribution.manifest.list.v2+json"),
           Some("application/vnd.oci.image.index.v1+json")}

\* What http_client.get returns for a manifest request: an error, or a
\* response with its Content-Type, its body and whether the body hashes to
\* the digest of a request by digest.
Responses ==
    {[status |-> "error", content_type |-> None,
      body |-> [json |-> FALSE, manifests |-> <<>>], hash_ok |-> FALSE]} \cup
    {[status |-> "ok", content_type |-> c, body |-> b, hash_ok |-> h] :
        c \in ContentTypes, h \in BOOLEAN,
        b \in {x \in Bodies : x.manifests = <<>>}} \cup
    {[status |-> "ok", content_type |-> c, body |-> b, hash_ok |-> h] :
        c \in {x \in ContentTypes : IsIndexType(x)}, h \in BOOLEAN, b \in Bodies}

\* enum Tag: S(tag) or D(digest)
TagS(str) == [kind |-> "S", value |-> str]

TagD(str) == [kind |-> "D", value |-> str]

\* The item of manifests that find returns for an entry test that takes the
\* last match: None or the item.
RECURSIVE find_last(_, _)
find_last(manifests, w) ==
    IF manifests = <<>> THEN None
    ELSE IF manifests[Len(manifests)].architecture = w.architecture
            /\ manifests[Len(manifests)].os = w.os
    THEN Some(manifests[Len(manifests)])
    ELSE find_last(SubSeq(manifests, 1, Len(manifests) - 1), w)

\* manifests.into_iter().find(|i| i.platform.architecture == architecture
\* && i.platform.os == os)
RECURSIVE find(_, _)
find(manifests, w) ==
    IF manifests = <<>> THEN None
    ELSE IF Head(manifests).architecture = w.architecture /\ Head(manifests).os = w.os
    THEN Some(Head(manifests))
    ELSE find(Tail(manifests), w)

\* A step of the loop of manifests::get.
Continue(t) == [kind |-> "continue", tag |-> t, err |-> "None"]

Return(e) == [kind |-> "return", tag |-> <<>>, err |-> e]

\* A decoder that does not read its input to the end.
from_reader_unverified(t, r) == r.body.json

\* serde_json::from_reader on the body: the text must be the JSON asked
\* for, and the reader of a request by digest fails at the end of a body
\* that does not hash to the digest.
from_reader(t, r) == r.body.json /\ (t.kind = "D" => r.hash_ok)

\* The digest of the item that find returned.
parse_index_item(item) ==
    IF item = None THEN Return("MissingArchitecture")
    ELSE IF Digest_try_from(item[1].digest) = None THEN Return("InvalidDigest")
    ELSE Continue(TagD(Digest_try_from(item[1].digest)[1]))

\* parse_index
parse_index(t, r, w) ==
    IF ~from_reader(t, r) THEN Return("Json")
    ELSE parse_index_item(find(r.body.manifests, w))

\* A match that takes every type that is no index for a manifest.
match_content_type_any(t, r, w, ct) ==
    IF ct = None THEN Return("MissingContentType")
    ELSE IF ct[1] \in {"DockerManifestList", "OciImageIndex"} THEN parse_index(t, r, w)
    ELSE IF from_reader(t, r) THEN Return("Ok") ELSE Return("Json")

\* The match on content_type in the loop of manifests::get.
match_content_type(t, r, w, ct) ==
    IF ct = None THEN Return("MissingContentType")
    ELSE IF ct[1] \in {"DockerManifestList", "OciImageIndex"} THEN parse_index(t, r, w)
    ELSE IF ct[1] \in {"DockerManifestV2", "OciManifestV1"}
    THEN (IF from_reader(t, r) THEN Return("Ok") ELSE Return("Json"))
    ELSE Return("InvalidContentType")

\* One turn of the loop of manifests::get on the response r.
manifests_get(t, r, w) ==
    IF r.status # "ok" THEN Return("HttpRequest")
    ELSE IF r.content_type = None THEN Return("MissingContentType")
    ELSE match_content_type(t, r, w, MediaType_from_str(r.content_type[1]))

\* A check that lets every directory through.
check_empty_dir_any(t, made) ==
    IF t = "absent"
    THEN [err |-> IF made THEN "ok" ELSE "Io", target |-> IF made THEN "empty" ELSE t]
    ELSE [err |-> IF t = "file" THEN "Io" ELSE "ok", target |-> t]

\* Unpacker::check_empty_dir: a path that does not exist is created (made:
\* create_dir_all succeeds); read_dir fails on what is no directory; a
\* directory with an entry gives ENOTEMPTY.
check_empty_dir(t, made) ==
    IF t = "absent"
    THEN [err |-> IF made THEN "ok" ELSE "Io", target |-> IF made THEN "empty" ELSE t]
    ELSE [err |-> IF t = "empty" THEN "ok" ELSE "Io", target |-> t]

\* An unpack that goes on whatever the sandbox said.
sandbox_fatal_never(failed, require) == FALSE

\* if let Err(err) = Self::sandbox(..) { if self.require_sandbox { return .. } }
sandbox_fatal(failed, require) == failed /\ require

\* Self::sandbox: sandbox_status is told after restrict_self has succeeded;
\* every error leaves through a ? before it.
sandbox_status_calls(failed) == IF failed THEN 0 ELSE 1

\* Masks of the process that calls unpack: 0o022 and 0o077.
Umasks == {18, 63}

\* What images::get creates in the target.
TargetFiles == {"config.json", "rootfs", "layer"}

UnpackReturn(r) ==
    /\ upc' = "returned"
    /\ uret' = r

\* Self::check_empty_dir(target), then Client::new.
CheckEmptyDir ==
    /\ upc = "start"
    /\ \E made \in BOOLEAN :
        \E c \in {check_empty_dir(target_dir, made)} :
            /\ target_dir' = c.target
            /\ IF c.err = "ok"
               THEN upc' = "manifest" /\ UNCHANGED uret
               ELSE UnpackReturn(c.err)
    /\ UNCHANGED <<target_dir0, require_sandbox, sandbox, sandbox_events, wanted,
                   tag, manifest_log, response, manifest, blob_requests, created>>
    /\ UNCHANGED <<umask, umask0, umask_guard>>
    /\ UNCHANGED nonUnpackVars

\* One turn of the loop of manifests::get: the request for the locator, the
\* response, and the match on its Content-Type.
ManifestRequest ==
    /\ upc = "manifest"
    /\ Len(manifest_log) < MaxManifestRequests
    /\ manifest_log' = Append(manifest_log, tag.value)
    /\ \E r \in Responses :
        /\ response' = r
        /\ \E o \in {manifests_get(tag, r, wanted)} :
            IF o.kind = "continue"
            THEN /\ tag' = o.tag
                 /\ UNCHANGED <<upc, uret, manifest>>
            ELSE IF o.err = "Ok"
            THEN /\ manifest' = "resolved"
                 /\ upc' = "sandbox"
                 /\ UNCHANGED <<uret, tag>>
            ELSE /\ UnpackReturn(o.err)
                 /\ UNCHANGED <<tag, manifest>>
    /\ UNCHANGED <<target_dir, target_dir0, require_sandbox, sandbox,
                   sandbox_events, wanted, blob_requests, created>>
    /\ UNCHANGED <<umask, umask0, umask_guard>>
    /\ UNCHANGED nonUnpackVars

\* Self::sandbox(target, &self.event_handler) and the test of its result.
Sandbox ==
    /\ upc = "sandbox"
    /\ \E failed \in BOOLEAN :
        /\ sandbox' = IF failed THEN "failed" ELSE "enforced"
        /\ sandbox_events' = sandbox_events + sandbox_status_calls(failed)
        /\ IF sandbox_fatal(failed, require_sandbox)
           THEN UnpackReturn("Sandbox")
           ELSE upc' = "images" /\ UNCHANGED uret
    /\ UNCHANGED <<target_dir, target_dir0, require_sandbox, wanted, tag,
                   manifest_log, response, manifest, blob_requests, created>>
    /\ UNCHANGED <<umask, umask0, umask_guard>>
    /\ UNCHANGED nonUnpackVars

\* rustix::process::umask(mask): the mask it sets and the mask it returns.
umask_call(mask, cur) == [now |-> mask, old |-> cur]

\* A guard whose drop leaves the mask as it is.
UmaskGuard_drop_nothing(guard, cur) == cur

\* impl Drop for UmaskGuard: umask(self.0); without a guard nothing is set.
UmaskGuard_drop(guard, cur) == IF guard = None THEN cur ELSE guard[1]

\* images::get up to thread::scope: Directory::new(target), whose error is
\* returned, then download_start, the tasks and the queue, and
\* UmaskGuard(umask(Mode::empty())).
ImagesEnter ==
    /\ upc = "images"
    /\ \/ /\ UnpackReturn("Io")
          /\ UNCHANGED <<umask, umask_guard>>
       \/ /\ upc' = "download"
          /\ umask' = umask_call(0, umask).now
          /\ umask_guard' = Some(umask_call(0, umask).old)
          /\ UNCHANGED uret
    /\ UNCHANGED umask0
    /\ UNCHANGED <<target_dir, target_dir0, require_sandbox, sandbox,
                   sandbox_events, wanted, tag, manifest_log, response, manifest,
                   blob_requests, created>>
    /\ UNCHANGED nonUnpackVars

\* images::get: a worker sends the request of a blob.
BlobRequest ==
    /\ upc = "download"
    /\ blob_requests < MaxBlobRequests
    /\ blob_requests' = blob_requests + 1
    /\ UNCHANGED <<upc, uret, target_dir, target_dir0, require_sandbox, sandbox,
                   sandbox_events, wanted, tag, manifest_log, response, manifest,
                   created>>
    /\ UNCHANGED <<umask, umask0, umask_guard>>
    /\ UNCHANGED nonUnpackVars

\* images::get: config.json, the rootfs or the file of a layer is created.
CreateFile ==
    /\ upc = "download"
    /\ \E f \in TargetFiles \ created : created' = created \cup {f}
    /\ target_dir' = "nonempty"
    /\ UNCHANGED <<upc, uret, target_dir0, require_sandbox, sandbox,
                   sandbox_events, wanted, tag, manifest_log, response, manifest,
                   blob_requests>>
    /\ UNCHANGED <<umask, umask0, umask_guard>>
    /\ UNCHANGED nonUnpackVars

\* images::get returns what thread::scope returned: _umask_guard is
\* dropped.
ImagesReturn ==
    /\ upc = "download"
    /\ \E r \in {"Ok", "Io", "HttpRequest", "Interrupted"} : UnpackReturn(r)
    /\ umask' = UmaskGuard_drop(umask_guard, umask)
    /\ umask_guard' = None
    /\ UNCHANGED umask0
    /\ UNCHANGED <<target_dir, target_dir0, require_sandbox, sandbox,
                   sandbox_events, wanted, tag, manifest_log, response, manifest,
                   blob_requests, created>>
    /\ UNCHANGED nonUnpackVars

\* The call of unpack: the target is anything, the reference names a tag or
\* a digest.
InitUnpack ==
    /\ upc = "start"
    /\ uret = "None"
    /\ target_dir \in {"absent", "empty", "nonempty", "file"}
    /\ target_dir0 = target_dir
    /\ require_sandbox \in BOOLEAN
    /\ sandbox = "none"
    /\ sandbox_events = 0
    /\ wanted \in [architecture : {"amd64"}, os : OperatingSystems]
    /\ tag \in {TagS("latest"), TagD("sha256:1")}
    /\ manifest_log = <<>>
    /\ response = <<>>
    /\ manifest = "none"
    /\ blob_requests = 0
    /\ created = {}
    /\ umask \in Umasks
    /\ umask0 = umask
    /\ umask_guard = None
    /\ PoolIdle
    /\ FsIdle
    /\ HttpIdle
    /\ QueueIdle
    /\ LayerIdle
    /\ MetaIdle

NextUnpack ==
    \/ CheckEmptyDir
    \/ ManifestRequest
    \/ Sandbox
    \/ ImagesEnter
    \/ BlobRequest
    \/ CreateFile
    \/ ImagesReturn

SpecUnpack == InitUnpack /\ [][NextUnpack]_vars

\* ------------------------------------------------------------------------
\* Properties of Unpacker::unpack
\* ------------------------------------------------------------------------

\* C13: the sandbox is installed after the manifest is resolved and before
\* a blob is requested or a file is created in the target; when it cannot
\* be installed and is required, unpack returns the sandbox error with no
\* file created and no blob requested.
C13_SandboxBeforeWrites ==
    /\ sandbox # "none" => manifest = "resolved"
    /\ (blob_requests > 0 \/ created # {}) =>
          (sandbox = "enforced" \/ (sandbox = "failed" /\ ~require_sandbox))
    /\ (sandbox = "failed" /\ require_sandbox) =>
          /\ upc = "returned"
          /\ uret = "Sandbox"
          /\ blob_requests = 0
          /\ created = {}
          /\ target_dir \in {"empty"}

\* The sandbox was required and could not be installed, after an index and
\* a manifest were fetched.
C13_Witness ==
    /\ upc = "returned"
    /\ uret = "Sandbox"
    /\ require_sandbox
    /\ sandbox = "failed"
    /\ Len(manifest_log) = 2

\* C14 (as claimed): when the sandbox cannot be installed and is not
\* required, the failure is told to the event handler and unpack goes on
\* without sandbox.
C14_FailureReported ==
    (sandbox = "failed" /\ ~require_sandbox) =>
        /\ sandbox_events > 0
        /\ ~(upc = "returned" /\ uret = "Sandbox")

\* The step got an index that decodes: a response with the media type of a
\* manifest list or an image index and a body that is the JSON of one.
IndexStep ==
    /\ upc = "manifest"
    /\ manifest_log' # manifest_log
    /\ response'.status = "ok"
    /\ IsIndexType(response'.content_type)
    /\ response'.body.json
    /\ (tag.kind = "D" => response'.hash_ok)

\* Entry i of the index of the step is for the platform asked for.
Matches(i) ==
    /\ response'.body.manifests[i].architecture = wanted.architecture
    /\ response'.body.manifests[i].os = wanted.os

\* C15: of a manifest list or image index the first entry, in the order of
\* the document, whose architecture and os are the ones asked for is
\* selected, and the manifest is fetched again by the digest of that entry
\* (when the digest is well-formed); when no entry matches the resolution
\* fails with MissingArchitecture and sends no other request.
C15_FirstMatchingEntry ==
    [][/\ manifest_log' # manifest_log =>
            manifest_log' = Append(manifest_log, tag.value)
       /\ upc = "returned" => manifest_log' = manifest_log
       /\ IndexStep =>
            /\ \A i \in DOMAIN response'.body.manifests :
                  (/\ Matches(i)
                   /\ \A j \in 1 .. i - 1 : ~Matches(j)
                   /\ response'.body.manifests[i].digest # "sha256") =>
                      /\ tag' = TagD(response'.body.manifests[i].digest)
                      /\ upc' = "manifest"
            /\ (\A i \in DOMAIN response'.body.manifests : ~Matches(i)) =>
                  /\ upc' = "returned"
                  /\ uret' = "MissingArchitecture"]_vars

\* An index with two entries for the platform asked for, with different
\* digests, has been answered and the next request is for the first one.
C15_Witness ==
    /\ upc = "manifest"
    /\ response # <<>>
    /\ Len(response.body.manifests) = 2
    /\ \A i \in {1, 2} :
          /\ response.body.manifests[i].architecture = wanted.architecture
          /\ response.body.manifests[i].os = wanted.os
    /\ response.body.manifests[1].digest = "sha256:2"
    /\ response.body.manifests[2].digest = "sha256:1"
    /\ tag = TagD("sha256:2")

\* C18: a target that is a directory with an entry makes unpack fail with an
\* I/O error before any request, the target left as it was; a target that
\* does not exist is created, or unpack fails with the error of creating it.
C18_TargetMustBeEmpty ==
    /\ (target_dir0 = "nonempty" /\ upc # "start") =>
          /\ upc = "returned"
          /\ uret = "Io"
          /\ manifest_log = <<>>
          /\ blob_requests = 0
          /\ created = {}
          /\ target_dir = "nonempty"
    /\ (target_dir0 = "absent" /\ upc # "start") =>
          \/ target_dir # "absent"
          \/ upc = "returned" /\ uret = "Io" /\ manifest_log = <<>>
    /\ (target_dir0 = "absent" /\ upc = "manifest" /\ manifest_log = <<>>) =>
          target_dir = "empty"

\* unpack has failed on a target with an entry.
C18_Witness ==
    /\ target_dir0 = "nonempty"
    /\ upc = "returned"
    /\ uret = "Io"

\* C22: every file and directory that the download and extraction phase
\* creates in the target is created while the mask of the process is 0, and
\* when the phase has returned, with Ok or with an error, the mask is what
\* it was before.
C22_UmaskZeroAndRestored ==
    /\ [][created' # created => (umask = 0 /\ umask' = 0)]_vars
    /\ [](upc = "returned" => umask = umask0)
    /\ [](upc \notin {"download", "returned"} => umask = umask0)

\* The phase has created its files and has returned an error: the mask is
\* the one of the caller and is not 0.
C22_Witness ==
    /\ upc = "returned"
    /\ uret = "Io"
    /\ created = TargetFiles
    /\ umask = umask0
    /\ umask # 0

\* The Content-Type values that MediaType knows and that name neither an
\* index nor a manifest.
OtherMediaTypes ==
    {Some("application/vnd.oci.image.config.v1+json"),
     Some("application/vnd.oci.image.layer.v1.tar+gzip")}

\* A manifest request was sent and answered by a response.
ManifestAnswered ==
    /\ Len(manifest_log') = Len(manifest_log) + 1
    /\ response'.status = "ok"

\* C24: a manifest response without Content-Type, or with one that is no
\* known media type, fails the unpack with MissingContentType; one whose
\* Content-Type is a known media type other than an index, a list or a
\* manifest fails it with InvalidContentType; after either no blob is
\* requested and nothing is created in the target.
C24_ContentTypeErrors ==
    /\ [][ManifestAnswered =>
            /\ response'.content_type \in {None, Some("text/html")} =>
                  (upc' = "returned" /\ uret' = "MissingContentType")
            /\ response'.content_type \in OtherMediaTypes =>
                  (upc' = "returned" /\ uret' = "InvalidContentType")]_vars
    /\ [](uret \in {"MissingContentType", "InvalidContentType"} =>
            /\ upc = "returned"
            /\ blob_requests = 0
            /\ created = {}
            /\ target_dir = "empty")

\* The manifest named by an index came with the Content-Type of a layer:
\* the second request has failed the unpack with InvalidContentType.
C24_Witness ==
    /\ upc = "returned"
    /\ uret = "InvalidContentType"
    /\ Len(manifest_log) = 2
    /\ response.content_type = Some("application/vnd.oci.image.layer.v1.tar+gzip")
    /\ blob_requests = 0

\* C37 (as claimed): the resolution of the manifest returns a manifest or
\* an error after at most two manifest requests, whatever the registry
\* answers.
C37_AtMostTwoManifestRequests == Len(manifest_log) <= 2

\* The step sends a manifest request by digest.
RequestByDigest == Len(manifest_log') > Len(manifest_log) /\ tag.kind = "D"

\* C38: a manifest or an index that is requested by digest and whose body
\* does not hash to that digest makes the resolution fail: the step returns
\* an error, no manifest is resolved and no other digest is selected; and a
\* blob is requested only after a manifest was resolved.
C38_DigestMismatchIsFatal ==
    /\ [][(RequestByDigest /\ ~response'.hash_ok) =>
            /\ upc' = "returned"
            /\ uret' \notin {"None", "Ok"}
            /\ manifest' = "none"
            /\ tag' = tag]_vars
    /\ [](blob_requests > 0 => manifest = "resolved")
    /\ [](upc = "returned" /\ manifest = "none" => blob_requests = 0)

\* An index fetched by tag selected a digest, and the manifest fetched by
\* that digest had a well-formed body that does not hash to it.
C38_Witness ==
    /\ Len(manifest_log) = 2
    /\ tag.kind = "D"
    /\ response.status = "ok"
    /\ response.content_type = Some("application/vnd.oci.image.manifest.v1+json")
    /\ response.body.json
    /\ ~response.hash_ok
    /\ upc = "returned"
    /\ uret = "Json"

====
